---- MODULE Spec2Model ----
(***************************************************************************)
(* Type checkers of the support-ts-tapl repository.                        *)
(*                                                                         *)
(* The repository holds several realisations of one type checker for a     *)
(* small expression language (true/false/number/add/if/var/func/call/seq/  *)
(* const).  Each realisation is modelled from its own source file:         *)
(*   - arith.ts            paramorphism checker of the arithmetic fragment *)
(*   - unnamed/part_001    paramorphism checker with Var/Func, and the     *)
(*                         Reader-based fold checker                       *)
(*   - basic_suspend.ts    Effect-based fold checker (runSyncExit)         *)
(*   - basic_problem_solve.ts, ..._solve2_no_outer_suspend.ts              *)
(*                         trampolined checkers (yieldNow + suspend)       *)
(* The synchronous checkers run to completion inside one call, so each is  *)
(* one action; the trampolined checker is a step machine whose steps are   *)
(* the resumptions of the Effect run loop.                                 *)
(***************************************************************************)
EXTENDS Integers, Sequences, FiniteSets, TLC

VARIABLES term, env0, pc, impl, out, ctl, kont, native, maxNative, yields, call, returned, heap

vars == <<term, env0, pc, impl, out, ctl, kont, native, maxNative, yields, call, returned, heap>>

(***************************************************************************)
(* Bounds of the model.                                                    *)
(***************************************************************************)
\* largest number of arguments of a generated Call
MaxArgs == 2
\* largest number of Add nodes of a generated right-nested chain
MaxChain == 6

(***************************************************************************)
(* Tags and messages.                                                      *)
(***************************************************************************)
TermTag == [True |-> "true", False |-> "false", If |-> "if", Number |-> "number", Add |-> "add", Var |-> "var", Func |-> "func", Call |-> "call", Seq |-> "seq", Const |-> "const"]

TypeTag == [Boolean |-> "Boolean", Number |-> "Number", Func |-> "Func"]

\* Messages of the Effect-based checkers
Messages == [IfCondNotBoolean |-> "boolean expected", IfBranchesMismatch |-> "then and else have different types", RuntimeAddType |-> "number expected", UnknownVariable |-> "unknown variable", NotImplemented |-> "not implemented yet", FuncExpected |-> "function expected", ArgCountMismatch |-> "number of arguments mismatch", ArgTypeMismatch |-> "parameter type mismatch"]

\* Messages of the paramorphism checkers (keyed by ErrorCode)
ArithMessages == [IfCondNotBoolean |-> "boolean expected", IfBranchesMismatch |-> "then and else have different types", RuntimeAddType |-> "number expected", RuntimeIfType |-> "boolean expected", Unreachable |-> "unreachable"]

\* Messages of the Reader-based fold checker
ReaderMessages == [IfCondNotBoolean |-> "boolean expected", IfBranchesMismatch |-> "then and else have different types", RuntimeAddType |-> "number expected", UnknownVariable |-> "unknown variable", NotImplemented |-> "not implemented yet", FuncExpected |-> "function expected", ArgCountMismatch |-> "number of arguments mismatch", ArgTypeMismatch |-> "argument type mismatch"]

(***************************************************************************)
(* Types.  A Type is a record with a tag; a function type carries its      *)
(* parameters (name and type) and its return type.                         *)
(***************************************************************************)
TBoolean == [tag |-> TypeTag.Boolean]

TNumber == [tag |-> TypeTag.Number]

TFunc(params, retType) == [tag |-> TypeTag.Func, params |-> params, retType |-> retType]

Param(name, type) == [name |-> name, type |-> type]

\* What env[name] yields for a name the environment does not hold itself but
\* Object.prototype does: a native function, an object with no tag that counts.
NativeFn == [tag |-> "undefined", native |-> TRUE]

\* Names that every environment object inherits from Object.prototype
ProtoNames == {"toString"}

IsType(v) == v.tag \in {TypeTag.Boolean, TypeTag.Number, TypeTag.Func}

\* an equality of types that compares the parameter names as well
typeEqNamed(a, b) == a = b

\* a comparison of function types that stops at the parameters of a
RECURSIVE typeEqNoArity(_, _)
typeEqNoArity(a, b) ==
  IF a.tag # b.tag THEN FALSE
  ELSE IF a.tag \in {"Boolean", "Number"} THEN TRUE
  ELSE /\ \A i \in 1..Len(a.params) : i <= Len(b.params) /\ typeEqNoArity(a.params[i].type, b.params[i].type)
       /\ typeEqNoArity(a.retType, b.retType)

(***************************************************************************)
(* typeEq: structural equality of types, parameter names ignored.          *)
(***************************************************************************)
RECURSIVE typeEq(_, _)
typeEq(a, b) ==
  IF a.tag # b.tag THEN FALSE
  ELSE IF a.tag \in {TypeTag.Boolean, TypeTag.Number} THEN TRUE
  ELSE IF a.tag = TypeTag.Func THEN
    IF Len(a.params) # Len(b.params) THEN FALSE
    ELSE IF \E i \in 1..Len(a.params) : ~typeEq(a.params[i].type, b.params[i].type) THEN FALSE
    ELSE typeEq(a.retType, b.retType)
  ELSE FALSE

(***************************************************************************)
(* Environments: a TypeEnv is a plain object, here a function from the     *)
(* names it holds itself to their values.                                  *)
(***************************************************************************)
emptyEnv == [n \in {} |-> TNumber]

\* env[name]: an own property, else one inherited from Object.prototype,
\* else undefined (modelled as the record Undefined).
Undefined == [tag |-> "undefined", native |-> FALSE]

envGet(env, name) ==
  IF name \in DOMAIN env THEN env[name]
  ELSE IF name \in ProtoNames THEN NativeFn
  ELSE Undefined

\* !ty of the Var rules: only undefined is falsy here
Falsy(v) == v = Undefined

\* Object.fromEntries(entries): later entries overwrite earlier ones
RECURSIVE fromEntries(_)
fromEntries(entries) ==
  IF entries = <<>> THEN emptyEnv
  ELSE LET init == fromEntries(SubSeq(entries, 1, Len(entries) - 1))
           last == entries[Len(entries)]
       IN [n \in DOMAIN init \cup {last[1]} |-> IF n = last[1] THEN last[2] ELSE init[n]]

\* Object.freeze({...env, ...Object.fromEntries(entries)})
extendEnv(env, entries) ==
  LET add == fromEntries(entries)
  IN [n \in DOMAIN env \cup DOMAIN add |-> IF n \in DOMAIN add THEN add[n] ELSE env[n]]

\* params.map((p) => [p.name, p.type])
paramEntries(params) == [i \in 1..Len(params) |-> <<params[i].name, params[i].type>>]

(***************************************************************************)
(* Locations and positioned errors.                                        *)
(***************************************************************************)
Position(line, column) == [line |-> line, column |-> column]

Location(start, end) == [start |-> start, end |-> end]

\* a rendering that prints the 0-based columns as they are
errorAtZeroBased(msg, loc) == [file |-> "test.ts", startLine |-> loc.start.line, startCol |-> loc.start.column, endLine |-> loc.end.line, endCol |-> loc.end.column, message |-> msg]

\* the text thrown by errorAt: test.ts:L:C+1-L:C+1 msg
errorAt(msg, loc) == [file |-> "test.ts", startLine |-> loc.start.line, startCol |-> loc.start.column + 1, endLine |-> loc.end.line, endCol |-> loc.end.column + 1, message |-> msg]

(***************************************************************************)
(* Terms.  Every node carries its tag, its location and, by tag, a number, *)
(* a name, parameters and child terms (kids).                              *)
(***************************************************************************)
Term(tag, loc, n, name, params, kids) == [tag |-> tag, loc |-> loc, n |-> n, name |-> name, params |-> params, kids |-> kids]

left(t) == t.kids[1]

right(t) == t.kids[2]

cond(t) == t.kids[1]

thn(t) == t.kids[2]

els(t) == t.kids[3]

body(t) == t.kids[1]

func(t) == t.kids[1]

args(t) == SubSeq(t.kids, 2, Len(t.kids))

init(t) == t.kids[1]

rest(t) == t.kids[2]

(***************************************************************************)
(* The parser's annotation: a term's shape is laid out as its source text  *)
(* on line 1 and every node gets the span of its text.                     *)
(***************************************************************************)
Shape(tag, n, name, params, kids) == [tag |-> tag, n |-> n, name |-> name, params |-> params, kids |-> kids]

NameLen(name) == IF name = "toString" THEN 8 ELSE 1

RECURSIVE TypeWidth(_)
RECURSIVE ParamsWidth(_)
\* width of the text "x: number, y: boolean" of a parameter list
ParamsWidth(ps) ==
  IF ps = <<>> THEN 0
  ELSE NameLen(Head(ps).name) + 2 + TypeWidth(Head(ps).type) + (IF Len(ps) > 1 THEN 2 ELSE 0) + ParamsWidth(Tail(ps))

\* width of the text of a type: number, boolean, (params) => ret
TypeWidth(ty) ==
  CASE ty.tag = TypeTag.Number -> 6
    [] ty.tag = TypeTag.Boolean -> 7
    [] ty.tag = TypeTag.Func -> 1 + ParamsWidth(ty.params) + 5 + TypeWidth(ty.retType)

\* a callee that is written in parentheses
Parenthesised(s) == s.tag = TermTag.Call /\ s.kids[1].tag \in {TermTag.Func, TermTag.Add, TermTag.If}

\* width of the text before the first child
Prefix(s) ==
  CASE s.tag = TermTag.Const -> 6 + NameLen(s.name) + 3
    [] s.tag = TermTag.Func -> 1 + ParamsWidth(s.params) + 5
    [] Parenthesised(s) -> 1
    [] OTHER -> 0

\* width of the text between child j and child j + 1 (or the node's end)
Sep(s, j) ==
  CASE s.tag \in {TermTag.Add, TermTag.If} -> IF j < Len(s.kids) THEN 3 ELSE 0
    [] s.tag \in {TermTag.Seq, TermTag.Const} -> IF j < Len(s.kids) THEN 2 ELSE 0
    [] s.tag = TermTag.Call ->
         IF j = 1 THEN (IF Parenthesised(s) THEN 2 ELSE 1) + (IF Len(s.kids) = 1 THEN 1 ELSE 0)
         ELSE IF j = Len(s.kids) THEN 1 ELSE 2
    [] OTHER -> 0

RECURSIVE Width(_)
RECURSIVE WidthUpTo(_, _)
WidthUpTo(s, j) == IF j = 0 THEN 0 ELSE WidthUpTo(s, j - 1) + Width(s.kids[j]) + Sep(s, j)

Width(s) ==
  CASE s.tag = TermTag.True -> 4
    [] s.tag = TermTag.False -> 5
    [] s.tag = TermTag.Number -> 1
    [] s.tag = TermTag.Var -> NameLen(s.name)
    [] OTHER -> Prefix(s) + WidthUpTo(s, Len(s.kids))

RECURSIVE Annotate(_, _)
Annotate(s, col) ==
  Term(s.tag, Location(Position(1, col), Position(1, col + Width(s))), s.n, s.name, s.params,
       [i \in 1..Len(s.kids) |-> Annotate(s.kids[i], col + Prefix(s) + WidthUpTo(s, i - 1))])

(***************************************************************************)
(* The generated inputs.                                                   *)
(***************************************************************************)
sTrue == Shape(TermTag.True, 0, "", <<>>, <<>>)

sFalse == Shape(TermTag.False, 0, "", <<>>, <<>>)

sNumber(n) == Shape(TermTag.Number, n, "", <<>>, <<>>)

sVar(name) == Shape(TermTag.Var, 0, name, <<>>, <<>>)

sAdd(l, r) == Shape(TermTag.Add, 0, "", <<>>, <<l, r>>)

sIf(c, t, e) == Shape(TermTag.If, 0, "", <<>>, <<c, t, e>>)

sFunc(params, b) == Shape(TermTag.Func, 0, "", params, <<b>>)

sCall(f, as) == Shape(TermTag.Call, 0, "", <<>>, <<f>> \o as)

sSeq(b, r) == Shape(TermTag.Seq, 0, "", <<>>, <<b, r>>)

sConst(name, i, r) == Shape(TermTag.Const, 0, name, <<>>, <<i, r>>)

\* the function type (x: number) => number, used as a parameter type
TFn == TFunc(<<Param("x", TNumber)>>, TNumber)

ParamLists ==
  { <<>>, <<Param("x", TNumber)>>, <<Param("x", TBoolean)>>, <<Param("x", TFn)>>,
    <<Param("x", TNumber), Param("y", TNumber)>>, <<Param("x", TNumber), Param("y", TBoolean)>> }

Leaves == {sTrue, sFalse, sNumber(1), sVar("x"), sVar("toString")}

Core ==
  { sAdd(sTrue, sNumber(1)), sAdd(sVar("x"), sNumber(1)),
    sFunc(<<Param("x", TNumber)>>, sVar("x")),
    sFunc(<<Param("x", TNumber)>>, sAdd(sVar("x"), sNumber(1))),
    sFunc(<<Param("x", TNumber), Param("y", TNumber)>>, sVar("x")),
    sFunc(<<Param("x", TNumber)>>, sTrue),
    sConst("x", sNumber(1), sVar("x")),
    sConst("toString", sNumber(1), sVar("toString")) }

Kids == Leaves \cup Core

BranchPool == {sTrue, sNumber(1), sVar("x"), sAdd(sTrue, sNumber(1)), sFunc(<<Param("x", TNumber)>>, sVar("x"))}

ArgPool == {sTrue, sNumber(1), sVar("x"), sAdd(sTrue, sNumber(1)), sFunc(<<Param("x", TNumber)>>, sVar("x"))}

ArgLists == UNION { [1..k -> ArgPool] : k \in 0..MaxArgs }

Shapes ==
  Kids
  \cup { sAdd(l, r) : l \in Kids, r \in Kids }
  \cup { sIf(c, t, e) : c \in Kids, t \in BranchPool, e \in BranchPool }
  \cup { sFunc(ps, b) : ps \in ParamLists, b \in Kids }
  \cup { sCall(f, as) : f \in Kids, as \in ArgLists }
  \cup { sSeq(b, r) : b \in Kids, r \in Kids }
  \cup { sConst(name, i, r) : name \in {"x", "toString"}, i \in Kids, r \in Kids }

Terms == { Annotate(s, 0) : s \in Shapes }

Envs ==
  { emptyEnv, [n \in {"x"} |-> TNumber], [n \in {"x"} |-> TBoolean], [n \in {"x"} |-> TFn] }

(***************************************************************************)
(* Outcomes of a check.  A success carries the type, a failure the message *)
(* and the location it is reported at; both carry the trace of the nodes   *)
(* whose checking has started, in order, with the environment each ran in. *)
(***************************************************************************)
Ok(type, trace) == [ok |-> TRUE, type |-> type, trace |-> trace]

Fail(message, loc, trace) == [ok |-> FALSE, message |-> message, loc |-> loc, trace |-> trace]

Visit(t, env) == [tag |-> t.tag, loc |-> t.loc, env |-> env]

\* `${Messages.UnknownVariable}: ${name}`
unknownVariable(name) == Messages.UnknownVariable \o ": " \o name

(***************************************************************************)
(* basic_suspend.ts: the algebra algType run over foldTermR.  susp(t, env, *)
(* tr) runs the effect that foldTermR builds for t under the environment   *)
(* env; a rule runs its children's effects in the order its generator      *)
(* yields them.                                                            *)
(***************************************************************************)
RECURSIVE susp(_, _, _)
RECURSIVE suspAll(_, _, _, _)
\* Effect.all(args): the arguments' effects in order, stopping at a failure
suspAll(ts, env, tr, tys) ==
  IF ts = <<>> THEN [ok |-> TRUE, types |-> tys, trace |-> tr]
  ELSE LET a == susp(Head(ts), env, tr)
       IN IF ~a.ok THEN a ELSE suspAll(Tail(ts), env, a.trace, Append(tys, a.type))

suspVar(t, env, tr) ==
  LET ty == envGet(env, t.name)
  IN IF Falsy(ty) THEN Fail(unknownVariable(t.name), t.loc, tr) ELSE Ok(ty, tr)

\* an Add rule whose right operand runs in the environment in which the
\* check of the left operand ended
suspAddLeaky(t, env, tr) ==
  LET lt == susp(left(t), env, tr)
  IN IF ~lt.ok THEN lt
     ELSE LET rt == susp(right(t), lt.trace[Len(lt.trace)].env, lt.trace)
          IN IF ~rt.ok THEN rt
             ELSE IF lt.type.tag # TypeTag.Number \/ rt.type.tag # TypeTag.Number
                  THEN Fail(Messages.RuntimeAddType, t.loc, rt.trace)
                  ELSE Ok(TNumber, rt.trace)

suspAdd(t, env, tr) ==
  LET lt == susp(left(t), env, tr)
  IN IF ~lt.ok THEN lt
     ELSE LET rt == susp(right(t), env, lt.trace)
          IN IF ~rt.ok THEN rt
             ELSE IF lt.type.tag # TypeTag.Number \/ rt.type.tag # TypeTag.Number
                  THEN Fail(Messages.RuntimeAddType, t.loc, rt.trace)
                  ELSE Ok(TNumber, rt.trace)

\* an If rule that answers the then-branch's type without comparing the branches
suspIfNoCompare(t, env, tr) ==
  LET ct == susp(cond(t), env, tr)
  IN IF ~ct.ok THEN ct
     ELSE IF ct.type.tag # TypeTag.Boolean THEN Fail(Messages.IfCondNotBoolean, t.loc, ct.trace)
     ELSE LET tt == susp(thn(t), env, ct.trace)
          IN IF ~tt.ok THEN tt
             ELSE LET ee == susp(els(t), env, tt.trace)
                  IN IF ~ee.ok THEN ee ELSE Ok(tt.type, ee.trace)

suspIf(t, env, tr) ==
  LET ct == susp(cond(t), env, tr)
  IN IF ~ct.ok THEN ct
     ELSE IF ct.type.tag # TypeTag.Boolean THEN Fail(Messages.IfCondNotBoolean, t.loc, ct.trace)
     ELSE LET tt == susp(thn(t), env, ct.trace)
          IN IF ~tt.ok THEN tt
             ELSE LET ee == susp(els(t), env, tt.trace)
                  IN IF ~ee.ok THEN ee
                     ELSE IF ~typeEq(tt.type, ee.type)
                          THEN Fail(Messages.IfBranchesMismatch, t.loc, ee.trace)
                          ELSE Ok(tt.type, ee.trace)

suspFunc(t, env, tr) ==
  LET newEnv == extendEnv(env, paramEntries(t.params))
      retTy == susp(body(t), newEnv, tr)
  IN IF ~retTy.ok THEN retTy ELSE Ok(TFunc(t.params, retTy.type), retTy.trace)

\* a Call rule that compares the leading argument types before the count
suspCallTypesFirst(t, env, tr) ==
  LET fty == susp(func(t), env, tr)
  IN IF ~fty.ok THEN fty
     ELSE IF fty.type.tag # TypeTag.Func THEN Fail(Messages.FuncExpected, t.loc, fty.trace)
     ELSE LET argTys == suspAll(args(t), env, fty.trace, <<>>)
          IN IF ~argTys.ok THEN argTys
             ELSE LET m == IF Len(fty.type.params) < Len(argTys.types) THEN Len(fty.type.params) ELSE Len(argTys.types)
                      bad == { i \in 1..m : ~typeEq(fty.type.params[i].type, argTys.types[i]) }
                  IN IF bad # {}
                     THEN Fail(Messages.ArgTypeMismatch, args(t)[CHOOSE i \in bad : \A j \in bad : i <= j].loc, argTys.trace)
                     ELSE IF Len(fty.type.params) # Len(argTys.types)
                          THEN Fail(Messages.ArgCountMismatch, t.loc, argTys.trace)
                          ELSE Ok(fty.type.retType, argTys.trace)

suspCall(t, env, tr) ==
  LET fty == susp(func(t), env, tr)
  IN IF ~fty.ok THEN fty
     ELSE IF fty.type.tag # TypeTag.Func THEN Fail(Messages.FuncExpected, t.loc, fty.trace)
     ELSE LET argTys == suspAll(args(t), env, fty.trace, <<>>)
          IN IF ~argTys.ok THEN argTys
             ELSE IF Len(fty.type.params) # Len(argTys.types)
                  THEN Fail(Messages.ArgCountMismatch, t.loc, argTys.trace)
             ELSE LET bad == { i \in 1..Len(argTys.types) : ~typeEq(fty.type.params[i].type, argTys.types[i]) }
                  IN IF bad # {}
                     THEN Fail(Messages.ArgTypeMismatch, args(t)[CHOOSE i \in bad : \A j \in bad : i <= j].loc, argTys.trace)
                     ELSE Ok(fty.type.retType, argTys.trace)

\* a Seq rule that drops the outcome of first altogether
suspSeqIgnoreFirst(t, env, tr) == susp(rest(t), env, tr)

suspSeq(t, env, tr) ==
  LET b == susp(body(t), env, tr)
  IN IF ~b.ok THEN b ELSE susp(rest(t), env, b.trace)

suspConst(t, env, tr) ==
  LET initTy == susp(init(t), env, tr)
  IN IF ~initTy.ok THEN initTy
     ELSE susp(rest(t), extendEnv(env, << <<t.name, initTy.type>> >>), initTy.trace)

susp(t, env, tr) ==
  LET tr1 == Append(tr, Visit(t, env))
  IN CASE t.tag = TermTag.True -> Ok(TBoolean, tr1)
       [] t.tag = TermTag.False -> Ok(TBoolean, tr1)
       [] t.tag = TermTag.Number -> Ok(TNumber, tr1)
       [] t.tag = TermTag.Var -> suspVar(t, env, tr1)
       [] t.tag = TermTag.Add -> suspAdd(t, env, tr1)
       [] t.tag = TermTag.If -> suspIf(t, env, tr1)
       [] t.tag = TermTag.Func -> suspFunc(t, env, tr1)
       [] t.tag = TermTag.Call -> suspCall(t, env, tr1)
       [] t.tag = TermTag.Seq -> suspSeq(t, env, tr1)
       [] t.tag = TermTag.Const -> suspConst(t, env, tr1)

\* typecheck of basic_suspend.ts: run under env; a failure is rethrown by errorAt
suspTypecheck(t, env) ==
  LET r == susp(t, env, <<>>)
  IN IF r.ok THEN [ok |-> TRUE, type |-> r.type, trace |-> r.trace]
     ELSE [ok |-> FALSE, error |-> errorAt(r.message, r.loc), loc |-> r.loc, trace |-> r.trace]

(***************************************************************************)
(* basic-tagless-final.ts: the interpreter TypeOf run over interpret.  The *)
(* rules are those of algType with the children's effects run as they are, *)
(* not wrapped in Effect.suspend.  interpret(t, env, tr) runs the effect   *)
(* built for t with the TypeEnv service env.                               *)
(***************************************************************************)
RECURSIVE interpret(_, _, _)
RECURSIVE typeOfAll(_, _, _, _)
\* Effect.all(args): the arguments' effects in order, stopping at a failure
typeOfAll(ts, env, tr, tys) ==
  IF ts = <<>> THEN [ok |-> TRUE, types |-> tys, trace |-> tr]
  ELSE LET a == interpret(Head(ts), env, tr)
       IN IF ~a.ok THEN a ELSE typeOfAll(Tail(ts), env, a.trace, Append(tys, a.type))

typeOfVar(t, env, tr) ==
  LET ty == envGet(env, t.name)
  IN IF Falsy(ty) THEN Fail(unknownVariable(t.name), t.loc, tr) ELSE Ok(ty, tr)

\* an Add rule whose right operand runs in the environment in which the
\* check of the left operand ended
typeOfAddLeaky(t, env, tr) ==
  LET lt == interpret(left(t), env, tr)
  IN IF ~lt.ok THEN lt
     ELSE LET rt == interpret(right(t), lt.trace[Len(lt.trace)].env, lt.trace)
          IN IF ~rt.ok THEN rt
             ELSE IF lt.type.tag # TypeTag.Number \/ rt.type.tag # TypeTag.Number
                  THEN Fail(Messages.RuntimeAddType, t.loc, rt.trace)
                  ELSE Ok(TNumber, rt.trace)

typeOfAdd(t, env, tr) ==
  LET lt == interpret(left(t), env, tr)
  IN IF ~lt.ok THEN lt
     ELSE LET rt == interpret(right(t), env, lt.trace)
          IN IF ~rt.ok THEN rt
             ELSE IF lt.type.tag # TypeTag.Number \/ rt.type.tag # TypeTag.Number
                  THEN Fail(Messages.RuntimeAddType, t.loc, rt.trace)
                  ELSE Ok(TNumber, rt.trace)

typeOfIf(t, env, tr) ==
  LET ct == interpret(cond(t), env, tr)
  IN IF ~ct.ok THEN ct
     ELSE IF ct.type.tag # TypeTag.Boolean THEN Fail(Messages.IfCondNotBoolean, t.loc, ct.trace)
     ELSE LET tt == interpret(thn(t), env, ct.trace)
          IN IF ~tt.ok THEN tt
             ELSE LET ee == interpret(els(t), env, tt.trace)
                  IN IF ~ee.ok THEN ee
                     ELSE IF ~typeEq(tt.type, ee.type)
                          THEN Fail(Messages.IfBranchesMismatch, t.loc, ee.trace)
                          ELSE Ok(tt.type, ee.trace)

typeOfFunc(t, env, tr) ==
  LET newEnv == extendEnv(env, paramEntries(t.params))
      retTy == interpret(body(t), newEnv, tr)
  IN IF ~retTy.ok THEN retTy ELSE Ok(TFunc(t.params, retTy.type), retTy.trace)

typeOfCall(t, env, tr) ==
  LET fty == interpret(func(t), env, tr)
  IN IF ~fty.ok THEN fty
     ELSE IF fty.type.tag # TypeTag.Func THEN Fail(Messages.FuncExpected, t.loc, fty.trace)
     ELSE LET argTys == typeOfAll(args(t), env, fty.trace, <<>>)
          IN IF ~argTys.ok THEN argTys
             ELSE IF Len(fty.type.params) # Len(argTys.types)
                  THEN Fail(Messages.ArgCountMismatch, t.loc, argTys.trace)
             ELSE LET bad == { i \in 1..Len(argTys.types) : ~typeEq(fty.type.params[i].type, argTys.types[i]) }
                  IN IF bad # {}
                     THEN Fail(Messages.ArgTypeMismatch, args(t)[CHOOSE i \in bad : \A j \in bad : i <= j].loc, argTys.trace)
                     ELSE Ok(fty.type.retType, argTys.trace)

typeOfSeq(t, env, tr) ==
  LET b == interpret(body(t), env, tr)
  IN IF ~b.ok THEN b ELSE interpret(rest(t), env, b.trace)

typeOfConst(t, env, tr) ==
  LET initTy == interpret(init(t), env, tr)
  IN IF ~initTy.ok THEN initTy
     ELSE interpret(rest(t), extendEnv(env, << <<t.name, initTy.type>> >>), initTy.trace)

interpret(t, env, tr) ==
  LET tr1 == Append(tr, Visit(t, env))
  IN CASE t.tag = TermTag.True -> Ok(TBoolean, tr1)
       [] t.tag = TermTag.False -> Ok(TBoolean, tr1)
       [] t.tag = TermTag.Number -> Ok(TNumber, tr1)
       [] t.tag = TermTag.Var -> typeOfVar(t, env, tr1)
       [] t.tag = TermTag.Add -> typeOfAdd(t, env, tr1)
       [] t.tag = TermTag.If -> typeOfIf(t, env, tr1)
       [] t.tag = TermTag.Func -> typeOfFunc(t, env, tr1)
       [] t.tag = TermTag.Call -> typeOfCall(t, env, tr1)
       [] t.tag = TermTag.Seq -> typeOfSeq(t, env, tr1)
       [] t.tag = TermTag.Const -> typeOfConst(t, env, tr1)

\* typecheck of basic-tagless-final.ts: run under env; a failure is rethrown by errorAt
taglessTypecheck(t, env) ==
  LET r == interpret(t, env, <<>>)
  IN IF r.ok THEN [ok |-> TRUE, type |-> r.type, trace |-> r.trace]
     ELSE [ok |-> FALSE, error |-> errorAt(r.message, r.loc), loc |-> r.loc, trace |-> r.trace]

(***************************************************************************)
(* unnamed/part_001, second file: the Reader-based fold checker.  A node's *)
(* computation is a function of the environment; rdr(t, env, tr) applies   *)
(* the computation foldTermR builds for t to env.                          *)
(***************************************************************************)
RECURSIVE rdr(_, _, _)
RECURSIVE rdrAll(_, _, _, _)
\* args.map((a) => a(env)): a throw in one argument ends the map
rdrAll(ts, env, tr, tys) ==
  IF ts = <<>> THEN [ok |-> TRUE, types |-> tys, trace |-> tr]
  ELSE LET a == rdr(Head(ts), env, tr)
       IN IF ~a.ok THEN a ELSE rdrAll(Tail(ts), env, a.trace, Append(tys, a.type))

rdrVar(t, env, tr) ==
  LET ty == envGet(env, t.name)
  IN IF Falsy(ty) THEN Fail(ReaderMessages.UnknownVariable \o ": " \o t.name, t.loc, tr) ELSE Ok(ty, tr)

rdrAdd(t, env, tr) ==
  LET lt == rdr(left(t), env, tr)
  IN IF ~lt.ok THEN lt
     ELSE LET rt == rdr(right(t), env, lt.trace)
          IN IF ~rt.ok THEN rt
             ELSE IF lt.type.tag # TypeTag.Number \/ rt.type.tag # TypeTag.Number
                  THEN Fail(ReaderMessages.RuntimeAddType, t.loc, rt.trace)
                  ELSE Ok(TNumber, rt.trace)

rdrIf(t, env, tr) ==
  LET ct == rdr(cond(t), env, tr)
  IN IF ~ct.ok THEN ct
     ELSE IF ct.type.tag # TypeTag.Boolean THEN Fail(ReaderMessages.IfCondNotBoolean, t.loc, ct.trace)
     ELSE LET tt == rdr(thn(t), env, ct.trace)
          IN IF ~tt.ok THEN tt
             ELSE LET ee == rdr(els(t), env, tt.trace)
                  IN IF ~ee.ok THEN ee
                     ELSE IF ~typeEq(tt.type, ee.type)
                          THEN Fail(ReaderMessages.IfBranchesMismatch, t.loc, ee.trace)
                          ELSE Ok(tt.type, ee.trace)

rdrFunc(t, env, tr) ==
  LET withArgs == extendEnv(env, paramEntries(t.params))
      retTy == rdr(body(t), withArgs, tr)
  IN IF ~retTy.ok THEN retTy ELSE Ok(TFunc(t.params, retTy.type), retTy.trace)

\* a Call rule that answers the callee's type instead of its return type
rdrCallCalleeType(t, env, tr) ==
  LET fty == rdr(func(t), env, tr)
  IN IF ~fty.ok THEN fty
     ELSE IF fty.type.tag # TypeTag.Func THEN Fail(ReaderMessages.FuncExpected, t.loc, fty.trace)
     ELSE LET argTys == rdrAll(args(t), env, fty.trace, <<>>)
          IN IF ~argTys.ok THEN argTys
             ELSE IF Len(fty.type.params) # Len(argTys.types)
                  THEN Fail(ReaderMessages.ArgCountMismatch, t.loc, argTys.trace)
             ELSE IF \E i \in 1..Len(argTys.types) : ~typeEq(fty.type.params[i].type, argTys.types[i])
                  THEN Fail(ReaderMessages.ArgTypeMismatch, t.loc, argTys.trace)
                  ELSE Ok(fty.type, argTys.trace)

rdrCall(t, env, tr) ==
  LET fty == rdr(func(t), env, tr)
  IN IF ~fty.ok THEN fty
     ELSE IF fty.type.tag # TypeTag.Func THEN Fail(ReaderMessages.FuncExpected, t.loc, fty.trace)
     ELSE LET argTys == rdrAll(args(t), env, fty.trace, <<>>)
          IN IF ~argTys.ok THEN argTys
             ELSE IF Len(fty.type.params) # Len(argTys.types)
                  THEN Fail(ReaderMessages.ArgCountMismatch, t.loc, argTys.trace)
             ELSE IF \E i \in 1..Len(argTys.types) : ~typeEq(fty.type.params[i].type, argTys.types[i])
                  THEN Fail(ReaderMessages.ArgTypeMismatch, t.loc, argTys.trace)
                  ELSE Ok(fty.type.retType, argTys.trace)

rdr(t, env, tr) ==
  LET tr1 == Append(tr, Visit(t, env))
  IN CASE t.tag = TermTag.True -> Ok(TBoolean, tr1)
       [] t.tag = TermTag.False -> Ok(TBoolean, tr1)
       [] t.tag = TermTag.Number -> Ok(TNumber, tr1)
       [] t.tag = TermTag.Var -> rdrVar(t, env, tr1)
       [] t.tag = TermTag.Add -> rdrAdd(t, env, tr1)
       [] t.tag = TermTag.If -> rdrIf(t, env, tr1)
       [] t.tag = TermTag.Func -> rdrFunc(t, env, tr1)
       [] t.tag = TermTag.Call -> rdrCall(t, env, tr1)
       [] t.tag \in {TermTag.Seq, TermTag.Const} -> Fail(ReaderMessages.NotImplemented, t.loc, tr1)

\* typecheck of the Reader-based checker: the thrown Error is the outcome
rdrTypecheck(t, env) ==
  LET r == rdr(t, env, <<>>)
  IN IF r.ok THEN [ok |-> TRUE, type |-> r.type, trace |-> r.trace]
     ELSE [ok |-> FALSE, error |-> errorAt(r.message, r.loc), loc |-> r.loc, trace |-> r.trace]

(***************************************************************************)
(* unnamed/part_001, first file: the paramorphism checker with Var and     *)
(* Func.  paraTerm computes the children's results before it calls the     *)
(* node's rule; the rules close over the env of the enclosing typecheck.   *)
(***************************************************************************)
\* an extension in which the bindings of env win over the entries
envExtendKeep(env, entries) ==
  LET add == fromEntries(entries)
  IN [n \in DOMAIN env \cup DOMAIN add |-> IF n \in DOMAIN env THEN env[n] ELSE add[n]]

\* entries.reduce((e, [k, v]) => ({...e, [k]: v}), env)
RECURSIVE envExtend(_, _)
envExtend(env, entries) ==
  IF entries = <<>> THEN env
  ELSE envExtend([n \in DOMAIN env \cup {entries[1][1]} |-> IF n = entries[1][1] THEN entries[1][2] ELSE env[n]], Tail(entries))

RECURSIVE para(_, _, _)
paraVar(t, env, tr) ==
  LET ty == envGet(env, t.name)
  IN IF Falsy(ty) THEN Fail("unknown variable: " \o t.name, t.loc, tr) ELSE Ok(ty, tr)

paraAdd(t, env, tr) ==
  LET L == para(left(t), env, tr)
  IN IF ~L.ok THEN L
     ELSE LET R == para(right(t), env, L.trace)
          IN IF ~R.ok THEN R
             ELSE IF L.type.tag # TypeTag.Number THEN Fail(ArithMessages.RuntimeAddType, left(t).loc, R.trace)
             ELSE IF R.type.tag # TypeTag.Number THEN Fail(ArithMessages.RuntimeAddType, right(t).loc, R.trace)
             ELSE Ok(TNumber, R.trace)

paraIf(t, env, tr) ==
  LET C == para(cond(t), env, tr)
  IN IF ~C.ok THEN C
     ELSE LET T == para(thn(t), env, C.trace)
          IN IF ~T.ok THEN T
             ELSE LET E == para(els(t), env, T.trace)
                  IN IF ~E.ok THEN E
                     ELSE IF C.type.tag # TypeTag.Boolean THEN Fail(ArithMessages.RuntimeIfType, cond(t).loc, E.trace)
                     ELSE IF ~typeEq(T.type, E.type) THEN Fail(ArithMessages.IfBranchesMismatch, t.loc, E.trace)
                     ELSE Ok(T.type, E.trace)

\* paraTerm has typed the body under env before the Func rule types it again
\* under localEnv
paraFunc(t, env, tr) ==
  LET b == para(body(t), env, tr)
  IN IF ~b.ok THEN b
     ELSE LET localEnv == envExtend(env, paramEntries(t.params))
              retTy == para(body(t), localEnv, b.trace)
          IN IF ~retTy.ok THEN retTy ELSE Ok(TFunc(t.params, retTy.type), retTy.trace)

para(t, env, tr) ==
  LET tr1 == Append(tr, Visit(t, env))
  IN CASE t.tag = TermTag.True -> Ok(TBoolean, tr1)
       [] t.tag = TermTag.False -> Ok(TBoolean, tr1)
       [] t.tag = TermTag.Number -> Ok(TNumber, tr1)
       [] t.tag = TermTag.Var -> paraVar(t, env, tr1)
       [] t.tag = TermTag.Add -> paraAdd(t, env, tr1)
       [] t.tag = TermTag.If -> paraIf(t, env, tr1)
       [] t.tag = TermTag.Func -> paraFunc(t, env, tr1)
       [] t.tag \in {TermTag.Call, TermTag.Seq, TermTag.Const} -> Fail("not implemented yet", t.loc, tr1)

paraTypecheck(t, env) ==
  LET r == para(t, env, <<>>)
  IN IF r.ok THEN [ok |-> TRUE, type |-> r.type, trace |-> r.trace]
     ELSE [ok |-> FALSE, error |-> errorAt(r.message, r.loc), loc |-> r.loc, trace |-> r.trace]

(***************************************************************************)
(* arith.ts: the paramorphism checker of the arithmetic fragment.          *)
(***************************************************************************)
RECURSIVE IsArith(_)
IsArith(t) ==
  /\ t.tag \in {TermTag.True, TermTag.False, TermTag.Number, TermTag.Add, TermTag.If}
  /\ \A i \in 1..Len(t.kids) : IsArith(t.kids[i])

RECURSIVE arith(_, _)
\* an Add rule that expects Boolean operands
arithAddBooleans(t, tr) ==
  LET L == arith(left(t), tr)
  IN IF ~L.ok THEN L
     ELSE LET R == arith(right(t), L.trace)
          IN IF ~R.ok THEN R
             ELSE IF L.type.tag # TypeTag.Boolean THEN Fail(ArithMessages.RuntimeAddType, left(t).loc, R.trace)
             ELSE IF R.type.tag # TypeTag.Boolean THEN Fail(ArithMessages.RuntimeAddType, right(t).loc, R.trace)
             ELSE Ok(TNumber, R.trace)

arithAdd(t, tr) ==
  LET L == arith(left(t), tr)
  IN IF ~L.ok THEN L
     ELSE LET R == arith(right(t), L.trace)
          IN IF ~R.ok THEN R
             ELSE IF L.type.tag # TypeTag.Number THEN Fail(ArithMessages.RuntimeAddType, left(t).loc, R.trace)
             ELSE IF R.type.tag # TypeTag.Number THEN Fail(ArithMessages.RuntimeAddType, right(t).loc, R.trace)
             ELSE Ok(TNumber, R.trace)

arithIf(t, tr) ==
  LET C == arith(cond(t), tr)
  IN IF ~C.ok THEN C
     ELSE LET T == arith(thn(t), C.trace)
          IN IF ~T.ok THEN T
             ELSE LET E == arith(els(t), T.trace)
                  IN IF ~E.ok THEN E
                     ELSE IF C.type.tag # TypeTag.Boolean THEN Fail(ArithMessages.RuntimeIfType, cond(t).loc, E.trace)
                     ELSE IF T.type.tag # E.type.tag THEN Fail(ArithMessages.IfBranchesMismatch, t.loc, E.trace)
                     ELSE Ok(T.type, E.trace)

arith(t, tr) ==
  LET tr1 == Append(tr, Visit(t, emptyEnv))
  IN CASE t.tag = TermTag.True -> Ok(TBoolean, tr1)
       [] t.tag = TermTag.False -> Ok(TBoolean, tr1)
       [] t.tag = TermTag.Number -> Ok(TNumber, tr1)
       [] t.tag = TermTag.Add -> arithAdd(t, tr1)
       [] t.tag = TermTag.If -> arithIf(t, tr1)

arithTypecheck(t) ==
  LET r == arith(t, <<>>)
  IN IF r.ok THEN [ok |-> TRUE, type |-> r.type, trace |-> r.trace]
     ELSE [ok |-> FALSE, error |-> errorAt(r.message, r.loc), loc |-> r.loc, trace |-> r.trace]

(***************************************************************************)
(* The synchronous checkers as a state machine: an input is drawn, one     *)
(* checker is called on it, its outcome is recorded.                       *)
(***************************************************************************)
\* no call of a library function is under way
NoCall == [op |-> "none"]

NoRet == [done |-> FALSE]

NoOut == [ok |-> FALSE, none |-> TRUE]

Idle == [tag |-> "idle"]

Init ==
  /\ term \in Terms
  /\ env0 \in Envs
  /\ pc = "ready"
  /\ impl = "none"
  /\ out = NoOut
  /\ ctl = Idle
  /\ kont = <<>>
  /\ native = <<>>
  /\ maxNative = 0
  /\ yields = 0
  /\ call = NoCall
  /\ returned = NoRet
  /\ heap = <<>>

TypecheckSuspend ==
  /\ pc = "ready"
  /\ pc' = "done"
  /\ impl' = "basic_suspend"
  /\ out' = suspTypecheck(term, env0)
  /\ UNCHANGED <<term, env0, ctl, kont, native, maxNative, yields, call, returned, heap>>

TypecheckReader ==
  /\ pc = "ready"
  /\ pc' = "done"
  /\ impl' = "reader"
  /\ out' = rdrTypecheck(term, env0)
  /\ UNCHANGED <<term, env0, ctl, kont, native, maxNative, yields, call, returned, heap>>

TypecheckPara ==
  /\ pc = "ready"
  /\ pc' = "done"
  /\ impl' = "para"
  /\ out' = paraTypecheck(term, env0)
  /\ UNCHANGED <<term, env0, ctl, kont, native, maxNative, yields, call, returned, heap>>

TypecheckTaglessFinal ==
  /\ pc = "ready"
  /\ pc' = "done"
  /\ impl' = "tagless-final"
  /\ out' = taglessTypecheck(term, env0)
  /\ UNCHANGED <<term, env0, ctl, kont, native, maxNative, yields, call, returned, heap>>

\* parseArith yields only terms of the arithmetic fragment
TypecheckArith ==
  /\ pc = "ready"
  /\ IsArith(term)
  /\ pc' = "done"
  /\ impl' = "arith"
  /\ out' = arithTypecheck(term)
  /\ UNCHANGED <<term, env0, ctl, kont, native, maxNative, yields, call, returned, heap>>

Next ==
  \/ TypecheckSuspend
  \/ TypecheckReader
  \/ TypecheckPara
  \/ TypecheckArith
  \/ TypecheckTaglessFinal

Spec == Init /\ [][Next]_vars

(***************************************************************************)
(* basic_problem_solve.ts and basic_problem_solve2_no_outer_suspend.ts:    *)
(* the trampolined checker.  typecheckRecursive(t) only builds an effect;  *)
(* the Effect run loop forces a child's Effect.suspend thunk, the effect   *)
(* yields (Effect.yieldNow) and, when the scheduler resumes the fiber, the *)
(* flatMap callback runs the node's rule.  The continuations (flatMap) are *)
(* frames of the fiber's own stack kont, a heap structure; native is the   *)
(* JavaScript call stack.                                                  *)
(***************************************************************************)
Max(a, b) == IF a >= b THEN a ELSE b

\* the test's deep term: a right-nested chain of n Adds over one shared loc
deepLoc == Location(Position(1, 1), Position(1, 1))

RECURSIVE deepTerm(_)
deepTerm(n) ==
  IF n = 0 THEN Term(TermTag.Number, deepLoc, 1, "", <<>>, <<>>)
  ELSE Term(TermTag.Add, deepLoc, 0, "", <<>>, <<Term(TermTag.Number, deepLoc, 1, "", <<>>, <<>>), deepTerm(n - 1)>>)

Chains == { deepTerm(n) : n \in 0..MaxChain }

RECURSIVE AddDepth(_)
\* the number of Adds of a right-nested chain
AddDepth(t) == IF t.tag = TermTag.Add THEN 1 + AddDepth(right(t)) ELSE 0

\* the native frames under which the run loop executes a fiber
loopFrames == <<"scheduler", "runLoop">>

RECURSIVE buildNested(_, _)
\* a construction that descends into the children inside the parent's frame
buildNested(t, stack) ==
  IF Len(t.kids) = 0 THEN Len(stack) + 1
  ELSE LET inner == { buildNested(t.kids[i], Append(stack, "typecheckRecursive")) : i \in 1..Len(t.kids) }
       IN CHOOSE d \in inner : \A e \in inner : e <= d

\* the deepest native stack reached while typecheckRecursive(t), called
\* under stack, builds its effect: its own frame, no recursive call
build(t, stack) == Len(stack) + 1

\* errorEffect: the run loop calls the try thunk, which calls errorAt, which
\* calls the parser's error
errorEffect(msg, loc) == [tag |-> "fail", message |-> msg, loc |-> loc, depth |-> Len(loopFrames) + 3]

Ret(type) == [tag |-> "ret", type |-> type]

Susp(t, env) == [tag |-> "suspend", t |-> t, env |-> env]

Frame(tag, t, env, vals) == [tag |-> tag, t |-> t, env |-> env, vals |-> vals]

Step(c, push) == [ctl |-> c, push |-> push]

\* the flatMap callback of typecheckRecursive: the switch on t.tag
rule(t, env) ==
  CASE t.tag \in {TermTag.True, TermTag.False} -> Step(Ret(TBoolean), <<>>)
    [] t.tag = TermTag.Number -> Step(Ret(TNumber), <<>>)
    [] t.tag = TermTag.Var ->
         LET ty == envGet(env, t.name)
         IN IF Falsy(ty) THEN Step(errorEffect(unknownVariable(t.name), t.loc), <<>>) ELSE Step(Ret(ty), <<>>)
    [] t.tag = TermTag.Add -> Step(Susp(left(t), env), <<Frame("AddL", t, env, <<>>)>>)
    [] t.tag = TermTag.If -> Step(Susp(cond(t), env), <<Frame("IfC", t, env, <<>>)>>)
    [] t.tag = TermTag.Func -> Step(Susp(body(t), extendEnv(env, paramEntries(t.params))), <<Frame("Func", t, env, <<>>)>>)
    [] t.tag = TermTag.Call -> Step(Susp(func(t), env), <<Frame("CallF", t, env, <<>>)>>)
    [] t.tag = TermTag.Seq -> Step(Susp(body(t), env), <<Frame("SeqB", t, env, <<>>)>>)
    [] t.tag = TermTag.Const -> Step(Susp(init(t), env), <<Frame("ConstI", t, env, <<>>)>>)

\* a callback that blames the Call for a mismatched argument
callCheckAtCall(t, fty, argTys) ==
  IF Len(fty.params) # Len(argTys) THEN Step(errorEffect(Messages.ArgCountMismatch, t.loc), <<>>)
  ELSE IF \E i \in 1..Len(argTys) : ~typeEq(fty.params[i].type, argTys[i])
       THEN Step(errorEffect(Messages.ArgTypeMismatch, t.loc), <<>>)
       ELSE Step(Ret(fty.retType), <<>>)

\* basic_problem_solve.ts: the failures pushed for the mismatched arguments
\* i..Len(argTys), in order
RECURSIVE checks(_, _, _, _)
checks(t, fty, argTys, i) ==
  IF i > Len(argTys) THEN <<>>
  ELSE (IF ~typeEq(fty.params[i].type, argTys[i])
        THEN <<errorEffect(Messages.ArgTypeMismatch, args(t)[i].loc)>>
        ELSE <<>>) \o checks(t, fty, argTys, i + 1)

\* a callback that answers the failure pushed last
callCheckCollectLast(t, fty, argTys) ==
  IF Len(fty.params) # Len(argTys) THEN Step(errorEffect(Messages.ArgCountMismatch, t.loc), <<>>)
  ELSE LET cs == checks(t, fty, argTys, 1)
       IN IF Len(cs) > 0 THEN Step(cs[Len(cs)], <<>>) ELSE Step(Ret(fty.retType), <<>>)

\* basic_problem_solve.ts: count, then every mismatch is collected and the
\* first collected is answered
callCheckCollect(t, fty, argTys) ==
  IF Len(fty.params) # Len(argTys) THEN Step(errorEffect(Messages.ArgCountMismatch, t.loc), <<>>)
  ELSE LET cs == checks(t, fty, argTys, 1)
       IN IF Len(cs) > 0 THEN Step(cs[1], <<>>) ELSE Step(Ret(fty.retType), <<>>)

\* basic_problem_solve2_no_outer_suspend.ts: count, then the loop returns at
\* the first mismatched argument
callCheck(t, fty, argTys) ==
  IF Len(fty.params) # Len(argTys) THEN Step(errorEffect(Messages.ArgCountMismatch, t.loc), <<>>)
  ELSE LET bad == { i \in 1..Len(argTys) : ~typeEq(fty.params[i].type, argTys[i]) }
       IN IF bad # {}
          THEN Step(errorEffect(Messages.ArgTypeMismatch, args(t)[CHOOSE i \in bad : \A j \in bad : i <= j].loc), <<>>)
          ELSE Step(Ret(fty.retType), <<>>)

\* the callback of the variant i
callCheckOf(i, t, fty, argTys) ==
  IF i \in {"solve", "basic_problem"} THEN callCheckCollect(t, fty, argTys) ELSE callCheck(t, fty, argTys)

\* a flatMap continuation f applied to the value v of the effect before it
cont(f, v) ==
  CASE f.tag = "AddL" -> Step(Susp(right(f.t), f.env), <<Frame("AddR", f.t, f.env, <<v>>)>>)
    [] f.tag = "AddR" ->
         IF f.vals[1].tag # TypeTag.Number \/ v.tag # TypeTag.Number
         THEN Step(errorEffect(Messages.RuntimeAddType, f.t.loc), <<>>)
         ELSE Step(Ret(TNumber), <<>>)
    [] f.tag = "IfC" ->
         IF v.tag # TypeTag.Boolean
         THEN Step(errorEffect(Messages.IfCondNotBoolean, f.t.loc), <<>>)
         ELSE Step(Susp(thn(f.t), f.env), <<Frame("IfT", f.t, f.env, <<>>)>>)
    [] f.tag = "IfT" -> Step(Susp(els(f.t), f.env), <<Frame("IfE", f.t, f.env, <<v>>)>>)
    [] f.tag = "IfE" ->
         IF ~typeEq(f.vals[1], v)
         THEN Step(errorEffect(Messages.IfBranchesMismatch, f.t.loc), <<>>)
         ELSE Step(Ret(f.vals[1]), <<>>)
    [] f.tag = "Func" -> Step(Ret(TFunc(f.t.params, v)), <<>>)
    [] f.tag = "CallF" ->
         IF v.tag # TypeTag.Func THEN Step(errorEffect(Messages.FuncExpected, f.t.loc), <<>>)
         ELSE IF Len(args(f.t)) = 0 THEN callCheckOf(impl, f.t, v, <<>>)
         ELSE Step(Susp(args(f.t)[1], f.env), <<Frame("CallA", f.t, f.env, <<v>>)>>)
    [] f.tag = "CallA" ->
         LET argTys == Append(Tail(f.vals), v)
         IN IF Len(argTys) < Len(args(f.t))
            THEN Step(Susp(args(f.t)[Len(argTys) + 1], f.env), <<Frame("CallA", f.t, f.env, Append(f.vals, v))>>)
            ELSE callCheckOf(impl, f.t, f.vals[1], argTys)
    [] f.tag = "SeqB" -> Step(Susp(rest(f.t), f.env), <<>>)
    [] f.tag = "ConstI" -> Step(Susp(rest(f.t), extendEnv(f.env, << <<f.t.name, v>> >>)), <<>>)

depthOf(c) == IF c.tag = "fail" THEN c.depth ELSE Len(loopFrames) + 1

\* typecheckRecursive without its Effect.yieldNow(): the rule is the effect
typecheckRecursiveNoYield(i, t, env) == [tag |-> "parked", t |-> t, env |-> env]

\* what typecheckRecursive(t) returns: with the outer Effect.suspend
\* (basic_problem_solve.ts) a thunk the run loop has yet to force, without it
\* (..._solve2_no_outer_suspend.ts) the effect that starts with yieldNow
typecheckRecursive(i, t, env) ==
  IF i = "solve" THEN [tag |-> "outer", t |-> t, env |-> env] ELSE [tag |-> "yield", t |-> t, env |-> env]

InitTramp ==
  /\ term \in Terms \cup Chains
  /\ env0 \in Envs
  /\ pc = "ready"
  /\ impl = "none"
  /\ out = NoOut
  /\ ctl = Idle
  /\ kont = <<>>
  /\ native = <<>>
  /\ maxNative = 0
  /\ yields = 0
  /\ call = NoCall
  /\ returned = NoRet
  /\ heap = <<>>

\* typecheck: the root effect is built inside typecheck, then the fiber is
\* started and typecheck awaits it
TrampStart ==
  /\ pc = "ready"
  /\ \E i \in {"solve", "solve2"} : impl' = i /\ ctl' = typecheckRecursive(i, term, env0)
  /\ pc' = "run"
  /\ maxNative' = build(term, <<"typecheck">>)
  /\ native' = loopFrames
  /\ UNCHANGED <<term, env0, out, kont, yields, call, returned, heap>>

\* the run loop forces Effect.suspend(() => typecheckRecursive(child))
TrampEnter ==
  /\ pc = "run"
  /\ ctl.tag = "suspend"
  /\ ctl' = typecheckRecursive(impl, ctl.t, ctl.env)
  /\ maxNative' = Max(maxNative, build(ctl.t, Append(loopFrames, "thunk")))
  /\ UNCHANGED <<term, env0, pc, impl, out, kont, native, yields, call, returned, heap>>

\* the run loop forces the outer Effect.suspend of typecheckRecursive
TrampForce ==
  /\ pc = "run"
  /\ ctl.tag = "outer"
  /\ ctl' = [tag |-> "yield", t |-> ctl.t, env |-> ctl.env]
  /\ maxNative' = Max(maxNative, Len(loopFrames) + 1)
  /\ UNCHANGED <<term, env0, pc, impl, out, kont, native, yields, call, returned, heap>>

\* Effect.yieldNow(): the fiber gives up the thread, the native stack unwinds
TrampYield ==
  /\ pc = "run"
  /\ ctl.tag = "yield"
  /\ ctl' = [tag |-> "parked", t |-> ctl.t, env |-> ctl.env]
  /\ native' = <<>>
  /\ yields' = yields + 1
  /\ UNCHANGED <<term, env0, pc, impl, out, kont, maxNative, call, returned, heap>>

\* the scheduler resumes the fiber: the node's rule runs
TrampResume ==
  /\ pc = "run"
  /\ ctl.tag = "parked"
  /\ LET s == rule(ctl.t, ctl.env)
     IN /\ ctl' = s.ctl
        /\ kont' = s.push \o kont
        /\ maxNative' = Max(maxNative, depthOf(s.ctl))
  /\ native' = loopFrames
  /\ UNCHANGED <<term, env0, pc, impl, out, yields, call, returned, heap>>

\* a value reaches the innermost continuation
TrampReturn ==
  /\ pc = "run"
  /\ ctl.tag = "ret"
  /\ kont # <<>>
  /\ LET s == cont(Head(kont), ctl.type)
     IN /\ ctl' = s.ctl
        /\ kont' = s.push \o Tail(kont)
        /\ maxNative' = Max(maxNative, depthOf(s.ctl))
  /\ UNCHANGED <<term, env0, pc, impl, out, native, yields, call, returned, heap>>

\* the fiber ends: a value with no continuation left, or a failure, which no
\* continuation handles; typecheck returns the type or rethrows by errorAt
TrampFinish ==
  /\ pc = "run"
  /\ \/ ctl.tag = "ret" /\ kont = <<>> /\ out' = [ok |-> TRUE, type |-> ctl.type]
     \/ ctl.tag = "fail" /\ out' = [ok |-> FALSE, error |-> errorAt(ctl.message, ctl.loc), loc |-> ctl.loc]
  /\ pc' = "done"
  /\ ctl' = Idle
  /\ kont' = <<>>
  /\ native' = <<>>
  /\ UNCHANGED <<term, env0, impl, maxNative, yields, call, returned, heap>>

NextTramp ==
  \/ TrampStart
  \/ TrampEnter
  \/ TrampForce
  \/ TrampYield
  \/ TrampResume
  \/ TrampReturn
  \/ TrampFinish

SpecTramp == InitTramp /\ [][NextTramp]_vars

(***************************************************************************)
(* basic_problem.ts: the eager flatMap variant.  typecheckRecursive calls  *)
(* itself on every child before it returns the effect of the node, so the  *)
(* effect of the whole term is built on the native stack of typecheck;     *)
(* kont holds the open calls, innermost first, each with the child it has  *)
(* yet to build and the native frames its call took.                       *)
(***************************************************************************)

\* the native frames the stack has room for
StackLimit == 6

\* the frames of the call on child i of t: the arguments of a Call are built
\* inside the callback of t.args.map
callFrames(t, i) ==
  IF t.tag = TermTag.Call /\ i >= 2 THEN <<"map", "callback", "typecheckRecursive">> ELSE <<"typecheckRecursive">>

\* a construction in which the call on a child returns a thunk at once
EagerDescendLazy ==
  /\ pc = "build"
  /\ kont # <<>>
  /\ Head(kont).i <= Len(Head(kont).t.kids)
  /\ kont' = <<[Head(kont) EXCEPT !.i = @ + 1]>> \o Tail(kont)
  /\ UNCHANGED <<term, env0, pc, impl, out, ctl, native, maxNative, yields, call, returned, heap>>

RECURSIVE runBuilt(_, _)
\* Effect.runPromiseExit on the effect built: the flatMap chain of each node
\* runs its children's effects in order, with no yield
runBuilt(c, k) ==
  IF c.tag = "fail" THEN [ok |-> FALSE, error |-> errorAt(c.message, c.loc), loc |-> c.loc]
  ELSE IF c.tag = "ret"
       THEN IF k = <<>> THEN [ok |-> TRUE, type |-> c.type]
            ELSE LET s == cont(Head(k), c.type) IN runBuilt(s.ctl, s.push \o Tail(k))
       ELSE LET s == rule(c.t, c.env) IN runBuilt(s.ctl, s.push \o k)

\* typecheck calls typecheckRecursive(t)
EagerStart ==
  /\ pc = "ready"
  /\ impl' = "basic_problem"
  /\ pc' = "build"
  /\ kont' = <<[t |-> term, i |-> 1, frames |-> 1]>>
  /\ native' = <<"typecheck", "typecheckRecursive">>
  /\ maxNative' = 2
  /\ ctl' = [tag |-> "building", calls |-> 1, nesting |-> 1]
  /\ UNCHANGED <<term, env0, out, yields, call, returned, heap>>

\* const l = typecheckRecursive(t.left) and its like: the call on the next
\* child, inside the frame of the parent
EagerDescend ==
  /\ pc = "build"
  /\ kont # <<>>
  /\ LET f == Head(kont)
     IN /\ f.i <= Len(f.t.kids)
        /\ Len(native) + Len(callFrames(f.t, f.i)) <= StackLimit
        /\ kont' = <<[t |-> f.t.kids[f.i], i |-> 1, frames |-> Len(callFrames(f.t, f.i))]>> \o kont
        /\ native' = native \o callFrames(f.t, f.i)
        /\ maxNative' = Max(maxNative, Len(native) + Len(callFrames(f.t, f.i)))
        /\ ctl' = [ctl EXCEPT !.calls = @ + 1, !.nesting = Max(@, Len(kont) + 1)]
  /\ UNCHANGED <<term, env0, pc, impl, out, yields, call, returned, heap>>

\* the call on the next child finds no room on the native stack: RangeError
\* unwinds typecheck, whose promise rejects
EagerOverflow ==
  /\ pc = "build"
  /\ kont # <<>>
  /\ LET f == Head(kont)
     IN /\ f.i <= Len(f.t.kids)
        /\ Len(native) + Len(callFrames(f.t, f.i)) > StackLimit
  /\ out' = [ok |-> FALSE, error |-> [name |-> "RangeError", message |-> "Maximum call stack size exceeded"]]
  /\ pc' = "done"
  /\ kont' = <<>>
  /\ native' = <<>>
  /\ maxNative' = StackLimit
  /\ UNCHANGED <<term, env0, impl, ctl, yields, call, returned, heap>>

\* every child built: the call returns the effect of its node to the parent,
\* or, for the root, to typecheck
EagerReturn ==
  /\ pc = "build"
  /\ kont # <<>>
  /\ LET f == Head(kont)
     IN /\ f.i > Len(f.t.kids)
        /\ native' = SubSeq(native, 1, Len(native) - f.frames)
        /\ kont' = IF Tail(kont) = <<>> THEN <<>>
                   ELSE <<[Head(Tail(kont)) EXCEPT !.i = @ + 1]>> \o Tail(Tail(kont))
        /\ pc' = IF Tail(kont) = <<>> THEN "built" ELSE "build"
  /\ UNCHANGED <<term, env0, impl, out, ctl, maxNative, yields, call, returned, heap>>

\* typecheck provides the environment and awaits the driver on the effect
EagerRun ==
  /\ pc = "built"
  /\ out' = runBuilt(Susp(term, env0), <<>>)
  /\ pc' = "done"
  /\ native' = <<>>
  /\ UNCHANGED <<term, env0, impl, ctl, kont, maxNative, yields, call, returned, heap>>

NextBuild ==
  \/ EagerStart
  \/ EagerDescend
  \/ EagerOverflow
  \/ EagerReturn
  \/ EagerRun
  \/ NextTramp

SpecBuild == InitTramp /\ [][NextBuild]_vars

\* every typecheck of the repository on one term and environment
NextAll == Next \/ NextTramp

SpecAll == InitTramp /\ [][NextAll]_vars

(***************************************************************************)
(* The accumulating checkers of example-fp.ts, unnamed/part_000 and the    *)
(* typecheckAlg of arith.ts: a Result is Ok with a type or Err with a list *)
(* of error codes; foldTerm computes the children's results, then the rule.*)
(* An exception thrown by a rule leaves foldTerm at once.                  *)
(***************************************************************************)
ResultTag == [Ok |-> "Ok", Err |-> "Err"]

ErrorCode == [IfCondNotBoolean |-> "IfCondNotBoolean", IfBranchesMismatch |-> "IfBranchesMismatch", RuntimeAddType |-> "RuntimeAddType", RuntimeIfType |-> "RuntimeIfType", Unreachable |-> "Unreachable"]

ok(value) == [tag |-> ResultTag.Ok, value |-> value]

err(es) == [tag |-> ResultTag.Err, error |-> es]

isErr(r) == r.tag = ResultTag.Err

isOk(r) == r.tag = ResultTag.Ok

\* throw new Error(message)
Thrown(message) == [tag |-> "Throw", message |-> message]

isThrown(r) == r.tag = "Throw"

errsOf(r) == IF isErr(r) THEN r.error ELSE <<>>

sameType(a, b) == a.tag = b.tag

\* the function typecheckAlg.Add hands to map2
addNumbers(l, r) ==
  IF l.tag # TypeTag.Number \/ r.tag # TypeTag.Number
  THEN Thrown(ArithMessages.Unreachable)
  ELSE TNumber

\* map2(ra, rb, f), with f the function of typecheckAlg.Add, its only caller
map2(ra, rb) ==
  IF isErr(ra) /\ isErr(rb) THEN err(ra.error \o rb.error)
  ELSE IF isErr(ra) THEN ra
  ELSE IF isErr(rb) THEN rb
  ELSE LET c == addNumbers(ra.value, rb.value)
       IN IF isThrown(c) THEN c ELSE ok(c)

accAdd(lt, rt) == map2(lt, rt)

\* an If that accepts a condition of any type
condAnyType(rc) == <<>>

condNotBoolean(rc) ==
  IF isOk(rc) /\ rc.value.tag # TypeTag.Boolean THEN <<ErrorCode.IfCondNotBoolean>> ELSE <<>>

branchesMismatch(rt, re) ==
  IF isOk(rt) /\ isOk(re) /\ ~sameType(rt.value, re.value) THEN <<ErrorCode.IfBranchesMismatch>> ELSE <<>>

\* example-fp.ts
fpIf(rc, rt, re) ==
  LET all == errsOf(rc) \o errsOf(rt) \o errsOf(re) \o condNotBoolean(rc) \o branchesMismatch(rt, re)
  IN IF all # <<>> THEN err(all) ELSE ok(rt.value)

\* unnamed/part_000: the If's own errors are pushed before the children's
part000If(rc, rt, re) ==
  LET errors == condNotBoolean(rc) \o branchesMismatch(rt, re) \o errsOf(rc) \o errsOf(rt) \o errsOf(re)
  IN IF errors # <<>> THEN err(errors)
     ELSE ok(IF isOk(rt) THEN rt.value ELSE IF isOk(re) THEN re.value ELSE TBoolean)

\* arith.ts, typecheckAlg
arithAlgIf(rc, rt, re) ==
  LET all == errsOf(rc) \o errsOf(rt) \o errsOf(re) \o condNotBoolean(rc)
               \o (IF isOk(rt) /\ isOk(re) /\ rt.value.tag # re.value.tag THEN <<ErrorCode.IfBranchesMismatch>> ELSE <<>>)
  IN IF all # <<>> THEN err(all)
     ELSE IF isOk(rt) THEN ok(rt.value)
     ELSE IF isOk(re) THEN ok(re.value)
     ELSE Thrown(ArithMessages.Unreachable)

accIf(i, rc, rt, re) ==
  CASE i = "example-fp" -> fpIf(rc, rt, re)
    [] i = "part_000" -> part000If(rc, rt, re)
    [] i = "arith-alg" -> arithAlgIf(rc, rt, re)

RECURSIVE foldTerm(_, _)
foldTerm(i, t) ==
  CASE t.tag \in {TermTag.True, TermTag.False} -> ok(TBoolean)
    [] t.tag = TermTag.Number -> ok(TNumber)
    [] t.tag = TermTag.Add ->
         LET l == foldTerm(i, left(t))
         IN IF isThrown(l) THEN l
            ELSE LET r == foldTerm(i, right(t))
                 IN IF isThrown(r) THEN r ELSE accAdd(l, r)
    [] t.tag = TermTag.If ->
         LET c == foldTerm(i, cond(t))
         IN IF isThrown(c) THEN c
            ELSE LET th == foldTerm(i, thn(t))
                 IN IF isThrown(th) THEN th
                    ELSE LET el == foldTerm(i, els(t))
                         IN IF isThrown(el) THEN el ELSE accIf(i, c, th, el)

\* the terms parseArith gives: literals, and Adds and Ifs two levels deep
ArithLeaves == {sTrue, sNumber(2)}

ArithLevel1 ==
  ArithLeaves \cup { sAdd(l, r) : l \in ArithLeaves, r \in ArithLeaves }
              \cup { sIf(c, t, e) : c \in ArithLeaves, t \in ArithLeaves, e \in ArithLeaves }

ArithLevel2 ==
  ArithLevel1 \cup { sAdd(l, r) : l \in ArithLevel1, r \in ArithLevel1 }
              \cup { sIf(c, t, e) : c \in ArithLevel1, t \in ArithLevel1, e \in ArithLevel1 }

ArithTerms == { Annotate(s, 0) : s \in ArithLevel2 }

InitAcc ==
  /\ term \in ArithTerms
  /\ env0 = emptyEnv
  /\ pc = "ready"
  /\ impl = "none"
  /\ out = NoOut
  /\ ctl = Idle
  /\ kont = <<>>
  /\ native = <<>>
  /\ maxNative = 0
  /\ yields = 0
  /\ call = NoCall
  /\ returned = NoRet
  /\ heap = <<>>

TypecheckFp ==
  /\ pc = "ready"
  /\ pc' = "done"
  /\ impl' = "example-fp"
  /\ out' = foldTerm("example-fp", term)
  /\ UNCHANGED <<term, env0, ctl, kont, native, maxNative, yields, call, returned, heap>>

TypecheckPart000 ==
  /\ pc = "ready"
  /\ pc' = "done"
  /\ impl' = "part_000"
  /\ out' = foldTerm("part_000", term)
  /\ UNCHANGED <<term, env0, ctl, kont, native, maxNative, yields, call, returned, heap>>

TypecheckArithAlg ==
  /\ pc = "ready"
  /\ pc' = "done"
  /\ impl' = "arith-alg"
  /\ out' = foldTerm("arith-alg", term)
  /\ UNCHANGED <<term, env0, ctl, kont, native, maxNative, yields, call, returned, heap>>

NextAcc ==
  \/ TypecheckFp
  \/ TypecheckPart000
  \/ TypecheckArithAlg

SpecAcc == InitAcc /\ [][NextAcc]_vars

(***************************************************************************)
(* The library functions called on their own: type equality.               *)
(***************************************************************************)
MaxParams == 2

ParamNames == {"x", "y"}

\* the parameter lists of at most n parameters with names of ParamNames and
\* types of T
RECURSIVE ParamSeqs(_, _)
ParamSeqs(T, n) ==
  IF n = 0 THEN {<<>>}
  ELSE LET shorter == ParamSeqs(T, n - 1)
       IN shorter \cup { Append(ps, Param(nm, ty)) : ps \in shorter, nm \in ParamNames, ty \in T }

FlatFuncs == { TFunc(ps, r) : ps \in ParamSeqs({TBoolean, TNumber}, MaxParams), r \in {TBoolean, TNumber} }

NestedFuncs ==
  { TFunc(<<Param("x", TFn)>>, TNumber),
    TFunc(<<Param("y", TFunc(<<Param("y", TNumber)>>, TNumber))>>, TNumber),
    TFunc(<<Param("x", TFunc(<<Param("x", TBoolean)>>, TNumber))>>, TNumber),
    TFunc(<<>>, TFn),
    TFunc(<<>>, TFunc(<<Param("y", TNumber)>>, TNumber)),
    TFunc(<<>>, TFunc(<<Param("y", TNumber)>>, TBoolean)) }

TypePool == {TBoolean, TNumber} \cup FlatFuncs \cup NestedFuncs

\* the Type of basic.ts: a function type lists its parameter types only
TFuncPositional(params, ret) == [tag |-> TypeTag.Func, params |-> params, ret |-> ret]

RECURSIVE toPositional(_)
toPositional(ty) ==
  IF ty.tag = TypeTag.Func
  THEN TFuncPositional([k \in 1..Len(ty.params) |-> toPositional(ty.params[k].type)], toPositional(ty.retType))
  ELSE ty

RECURSIVE typeEqPositional(_, _)
typeEqPositional(a, b) ==
  IF a.tag # b.tag THEN FALSE
  ELSE IF a.tag \in {TypeTag.Boolean, TypeTag.Number} THEN TRUE
  ELSE IF Len(a.params) # Len(b.params) THEN FALSE
  ELSE /\ \A k \in 1..Len(a.params) : typeEqPositional(a.params[k], b.params[k])
       /\ typeEqPositional(a.ret, b.ret)

TypeEqCalls ==
  { [op |-> o, a |-> x, b |-> y] : o \in {"typeEq", "typeEqPositional"}, x \in TypePool, y \in TypePool }

MaxEntries == 2

MaxCalls == 2

\* the bindings handed to an extension: names that repeat, that are bound in
\* the environment, and one that Object.prototype defines
EntryPool == { <<nm, ty>> : nm \in {"x", "y"}, ty \in {TNumber, TBoolean} } \cup { <<"toString", TNumber>> }

RECURSIVE EntrySeqs(_)
EntrySeqs(n) ==
  IF n = 0 THEN {<<>>}
  ELSE LET shorter == EntrySeqs(n - 1)
       IN shorter \cup { Append(es, e) : es \in shorter, e \in EntryPool }

\* the bindings of the extensions that follow the first one
NextEntries == { <<>>, << <<"x", TBoolean>> >>, << <<"y", TNumber>>, <<"x", TNumber>> >> }

\* an object of the heap: its own properties, and whether it is frozen
Obj(props, frozen) == [props |-> props, frozen |-> frozen]

\* the n-th call: extend the environment object at address env (1 is the
\* caller's environment) by entries, with the function op
ExtendCall(op, n, base, env, entries) == [op |-> op, n |-> n, base |-> base, env |-> env, entries |-> entries]

ExtendCalls ==
  { ExtendCall(o, 1, e, 1, es) : o \in {"extendEnv", "envExtend"}, e \in Envs, es \in EntrySeqs(MaxEntries) }

LibCalls == TypeEqCalls \cup ExtendCalls

InitLib ==
  /\ call \in LibCalls
  /\ returned = NoRet
  /\ heap = IF call \in ExtendCalls THEN <<Obj(call.base, call.base = emptyEnv)>> ELSE <<>>
  /\ term = Annotate(sTrue, 0)
  /\ env0 = emptyEnv
  /\ pc = "lib"
  /\ impl = "none"
  /\ out = NoOut
  /\ ctl = Idle
  /\ kont = <<>>
  /\ native = <<>>
  /\ maxNative = 0
  /\ yields = 0

Returns(v) == [done |-> TRUE, value |-> v]

CallTypeEq ==
  /\ call.op = "typeEq"
  /\ ~returned.done
  /\ returned' = Returns(typeEq(call.a, call.b))
  /\ UNCHANGED <<term, env0, pc, impl, out, ctl, kont, native, maxNative, yields, call, heap>>

CallTypeEqPositional ==
  /\ call.op = "typeEqPositional"
  /\ ~returned.done
  /\ returned' = Returns(typeEqPositional(toPositional(call.a), toPositional(call.b)))
  /\ UNCHANGED <<term, env0, pc, impl, out, ctl, kont, native, maxNative, yields, call, heap>>

\* extendEnv writes its bindings into the object it was handed
CallExtendEnvInPlace ==
  /\ call.op = "extendEnv"
  /\ ~returned.done
  /\ heap' = [heap EXCEPT ![call.env] = Obj(extendEnv(heap[call.env].props, call.entries), TRUE)]
  /\ returned' = Returns(call.env)
  /\ UNCHANGED <<term, env0, pc, impl, out, ctl, kont, native, maxNative, yields, call>>

\* extendEnv: Object.fromEntries makes one object, the object literal with
\* the two spreads a second one, which is frozen and returned
CallExtendEnv ==
  /\ call.op = "extendEnv"
  /\ ~returned.done
  /\ heap' = heap \o << Obj(fromEntries(call.entries), FALSE),
                        Obj(extendEnv(heap[call.env].props, call.entries), TRUE) >>
  /\ returned' = Returns(Len(heap) + 2)
  /\ UNCHANGED <<term, env0, pc, impl, out, ctl, kont, native, maxNative, yields, call>>

\* envExtend: reduce makes one object literal per entry and returns the last,
\* or env itself when there are no entries
CallEnvExtend ==
  /\ call.op = "envExtend"
  /\ ~returned.done
  /\ heap' = heap \o [k \in 1..Len(call.entries) |->
                        Obj(envExtend(heap[call.env].props, SubSeq(call.entries, 1, k)), FALSE)]
  /\ returned' = Returns(IF call.entries = <<>> THEN call.env ELSE Len(heap) + Len(call.entries))
  /\ UNCHANGED <<term, env0, pc, impl, out, ctl, kont, native, maxNative, yields, call>>

\* a later Func or Const of the run extends the caller's environment again
\* (a sibling subtree) or the environment just made (a nested one)
CallExtendAgain ==
  /\ call.op \in {"extendEnv", "envExtend"}
  /\ returned.done
  /\ call.n < MaxCalls
  /\ \E e \in {1, returned.value}, es \in NextEntries :
       call' = ExtendCall(call.op, call.n + 1, call.base, e, es)
  /\ returned' = NoRet
  /\ UNCHANGED <<term, env0, pc, impl, out, ctl, kont, native, maxNative, yields, heap>>

NextLib ==
  \/ CallTypeEq
  \/ CallTypeEqPositional
  \/ CallExtendEnv
  \/ CallEnvExtend
  \/ CallExtendAgain

SpecLib == InitLib /\ [][NextLib]_vars

(***************************************************************************)
(* Properties.                                                             *)
(***************************************************************************)
\* the outcome of checker i on a term t under env
typeIn(i, t, env) ==
  CASE i = "basic_suspend" -> suspTypecheck(t, env)
    [] i = "reader" -> rdrTypecheck(t, env)
    [] i = "para" -> paraTypecheck(t, env)
    [] i = "arith" -> arithTypecheck(t)

\* the outcomes of checker i on the terms ts under env
typesIn(i, ts, env) == [k \in 1..Len(ts) |-> typeIn(i, ts[k], env)]

\* C1: a Func is checked by checking its body under env extended with the
\* parameters; the result is the function type of the parameters and the
\* body's type, and a failure is the body's failure under the extended env.
C1_FuncBodyInExtendedEnv ==
  (pc = "done" /\ impl \in {"para", "basic_suspend", "reader"} /\ term.tag = TermTag.Func) =>
    LET b == typeIn(impl, body(term), extendEnv(env0, paramEntries(term.params)))
    IN IF b.ok THEN out.ok /\ out.type = TFunc(term.params, b.type)
       ELSE ~out.ok /\ out.error = b.error

\* the identity function on numbers, checked in the empty environment by the
\* paramorphism checker
C1_Input ==
  /\ pc = "done"
  /\ impl = "para"
  /\ term = Annotate(sFunc(<<Param("x", TNumber)>>, sVar("x")), 0)
  /\ env0 = emptyEnv
  /\ ~out.ok
  /\ out.error.message = "unknown variable: x"

\* C2: an Add with well-typed children of which one is not a Number fails
\* with "number expected" at the span of the offending child (the left one
\* first), never at the span of the Add.
C2_AddErrorAtChild ==
  (pc = "done" /\ impl \in {"arith", "basic_suspend"} /\ term.tag = TermTag.Add) =>
    LET l == typeIn(impl, left(term), env0)
        r == typeIn(impl, right(term), env0)
    IN (l.ok /\ r.ok /\ (l.type.tag # TypeTag.Number \/ r.type.tag # TypeTag.Number)) =>
         /\ ~out.ok
         /\ out.error.message = Messages.RuntimeAddType
         /\ out.loc = (IF l.type.tag # TypeTag.Number THEN left(term).loc ELSE right(term).loc)
         /\ out.loc # term.loc

\* true + 1 under the Effect-based checker: reported at the span of the Add
C2_Input ==
  /\ pc = "done"
  /\ impl = "basic_suspend"
  /\ term = Annotate(sAdd(sTrue, sNumber(1)), 0)
  /\ ~out.ok
  /\ out.error.message = Messages.RuntimeAddType
  /\ out.loc = term.loc

\* the indices of the arguments whose type is not type-equal to the parameter's
Mismatched(f, as) == { k \in 1..Len(as) : ~typeEq(f.type.params[k].type, as[k].type) }

\* C3: a Call with a function callee, as many well-typed arguments as
\* parameters and an argument whose type differs from its parameter's fails
\* with the argument-type message at the span of such an argument, not at
\* the span of the Call.
C3_ArgMismatchAtArgument ==
  (pc = "done" /\ impl \in {"basic_suspend", "reader"} /\ term.tag = TermTag.Call) =>
    LET f == typeIn(impl, func(term), env0)
        as == typesIn(impl, args(term), env0)
    IN (/\ f.ok
        /\ f.type.tag = TypeTag.Func
        /\ Len(f.type.params) = Len(as)
        /\ \A k \in 1..Len(as) : as[k].ok
        /\ Mismatched(f, as) # {}) =>
         /\ ~out.ok
         /\ out.error.message \in {Messages.ArgTypeMismatch, ReaderMessages.ArgTypeMismatch}
         /\ out.loc \in { args(term)[k].loc : k \in Mismatched(f, as) }
         /\ out.loc # term.loc

\* ((x: number) => x)(true) under the Reader-based checker: reported at the
\* span of the Call
C3_Input ==
  /\ pc = "done"
  /\ impl = "reader"
  /\ term = Annotate(sCall(sFunc(<<Param("x", TNumber)>>, sVar("x")), <<sTrue>>), 0)
  /\ ~out.ok
  /\ out.error.message = ReaderMessages.ArgTypeMismatch
  /\ out.loc = term.loc

\* C4: a Call whose callee types to Boolean or Number (its arguments being
\* well typed) fails with "function expected" at the span of the callee.
C4_FuncExpectedAtCallee ==
  (pc = "done" /\ impl = "basic_suspend" /\ term.tag = TermTag.Call) =>
    LET f == typeIn(impl, func(term), env0)
        as == typesIn(impl, args(term), env0)
    IN (/\ f.ok
        /\ f.type.tag \in {TypeTag.Boolean, TypeTag.Number}
        /\ \A k \in 1..Len(as) : as[k].ok) =>
         /\ ~out.ok
         /\ out.error.message = Messages.FuncExpected
         /\ out.loc = func(term).loc

\* 1(1) under the Effect-based checker: reported at the span of the Call
C4_Input ==
  /\ pc = "done"
  /\ impl = "basic_suspend"
  /\ term = Annotate(sCall(sNumber(1), <<sNumber(1)>>), 0)
  /\ ~out.ok
  /\ out.error.message = Messages.FuncExpected
  /\ out.loc = term.loc
  /\ out.loc # func(term).loc

\* C5: an If whose condition types to something other than Boolean (its
\* branches being well typed) fails with "boolean expected" at the span of
\* the condition, not at the span of the If.
C5_IfCondErrorAtCond ==
  (pc = "done" /\ impl \in {"arith", "basic_suspend"} /\ term.tag = TermTag.If) =>
    LET c == typeIn(impl, cond(term), env0)
        t == typeIn(impl, thn(term), env0)
        e == typeIn(impl, els(term), env0)
    IN (c.ok /\ c.type.tag # TypeTag.Boolean /\ t.ok /\ e.ok) =>
         /\ ~out.ok
         /\ out.error.message = Messages.IfCondNotBoolean
         /\ out.loc = cond(term).loc
         /\ out.loc # term.loc

\* 1 ? 1 : 1 under the Effect-based checker: reported at the span of the If
C5_Input ==
  /\ pc = "done"
  /\ impl = "basic_suspend"
  /\ term = Annotate(sIf(sNumber(1), sNumber(1), sNumber(1)), 0)
  /\ ~out.ok
  /\ out.error.message = Messages.IfCondNotBoolean
  /\ out.loc = term.loc

\* the first failing outcome of a sequence of outcomes
FirstFailure(rs) == rs[CHOOSE k \in 1..Len(rs) : ~rs[k].ok /\ \A j \in 1..(k - 1) : rs[j].ok]

\* C6: the children are checked before the node's own rule is applied: an
\* If with a non-Boolean condition and an ill-typed then-branch surfaces the
\* then-branch's diagnostic, and a Call on a non-function with an ill-typed
\* argument surfaces the diagnostic of the first ill-typed argument.
C6_ChildDiagnosticFirst ==
  (pc = "done" /\ impl = "basic_suspend") =>
    /\ term.tag = TermTag.If =>
         LET c == typeIn(impl, cond(term), env0)
             t == typeIn(impl, thn(term), env0)
         IN (c.ok /\ c.type.tag # TypeTag.Boolean /\ ~t.ok) => (~out.ok /\ out.error = t.error)
    /\ term.tag = TermTag.Call =>
         LET f == typeIn(impl, func(term), env0)
             as == typesIn(impl, args(term), env0)
         IN (f.ok /\ f.type.tag # TypeTag.Func /\ \E k \in 1..Len(as) : ~as[k].ok) =>
              (~out.ok /\ out.error = FirstFailure(as).error)

\* 1 ? true + 1 : 1 under the Effect-based checker: the If's own diagnostic
\* is surfaced and the then-branch is never visited
C6_Input ==
  /\ pc = "done"
  /\ impl = "basic_suspend"
  /\ term = Annotate(sIf(sNumber(1), sAdd(sTrue, sNumber(1)), sNumber(1)), 0)
  /\ ~out.ok
  /\ out.error.message = Messages.IfCondNotBoolean
  /\ \A k \in 1..Len(out.trace) : out.trace[k].loc # thn(term).loc

\* C8: a Var yields exactly the type env binds its name to, and with no
\* binding fails with "unknown variable: <name>" at the span of the Var.
C8_VarLookup ==
  (pc = "done" /\ impl = "basic_suspend" /\ term.tag = TermTag.Var) =>
    IF term.name \in DOMAIN env0 THEN out.ok /\ out.type = env0[term.name]
    ELSE ~out.ok /\ out.error.message = unknownVariable(term.name) /\ out.loc = term.loc

\* toString in the empty environment: no failure, and the value is no type
C8_Input ==
  /\ pc = "done"
  /\ impl = "basic_suspend"
  /\ term = Annotate(sVar("toString"), 0)
  /\ env0 = emptyEnv
  /\ out.ok
  /\ ~IsType(out.type)

\* C9: a Const checks rest under env extended with name -> type of init and
\* answers rest's outcome; after the Const, a sibling Var of the same name
\* sees env's binding, or fails with "unknown variable" when env has none.
C9_ConstScope ==
  (pc = "done" /\ impl = "basic_suspend") =>
    /\ term.tag = TermTag.Const =>
         LET i == typeIn(impl, init(term), env0)
         IN i.ok =>
              LET r == typeIn(impl, rest(term), extendEnv(env0, << <<term.name, i.type>> >>))
              IN IF r.ok THEN out.ok /\ out.type = r.type ELSE ~out.ok /\ out.error = r.error
    /\ (/\ term.tag = TermTag.Seq
        /\ body(term).tag = TermTag.Const
        /\ rest(term).tag = TermTag.Var
        /\ rest(term).name = body(term).name
        /\ typeIn(impl, body(term), env0).ok) =>
         IF rest(term).name \in DOMAIN env0 THEN out.ok /\ out.type = env0[rest(term).name]
         ELSE ~out.ok /\ out.error.message = unknownVariable(rest(term).name) /\ out.loc = rest(term).loc

\* const toString = 1; toString followed by toString, in the empty
\* environment: the sibling is not rejected
C9_Input ==
  /\ pc = "done"
  /\ impl = "basic_suspend"
  /\ term = Annotate(sSeq(sConst("toString", sNumber(1), sVar("toString")), sVar("toString")), 0)
  /\ env0 = emptyEnv
  /\ out.ok
  /\ ~IsType(out.type)

\* C10: a Call whose callee types to a function type, with as many arguments
\* as parameters, each of a type type-equal to its parameter's, yields the
\* function type's return type.
C10_CallReturnsRetType ==
  (pc = "done" /\ impl \in {"basic_suspend", "reader"} /\ term.tag = TermTag.Call) =>
    LET f == typeIn(impl, func(term), env0)
        as == typesIn(impl, args(term), env0)
    IN (/\ f.ok
        /\ f.type.tag = TypeTag.Func
        /\ Len(f.type.params) = Len(as)
        /\ \A k \in 1..Len(as) : as[k].ok
        /\ Mismatched(f, as) = {}) =>
         (out.ok /\ out.type = f.type.retType)

\* ((x: number) => true)(1) under the Reader-based checker yields Boolean
C10_Witness ==
  /\ pc = "done"
  /\ impl = "reader"
  /\ term = Annotate(sCall(sFunc(<<Param("x", TNumber)>>, sTrue), <<sNumber(1)>>), 0)
  /\ out.ok
  /\ out.type = TBoolean

\* C7: the trampolined check of a right-nested chain of Adds over Number
\* literals ends with Number, and the native stack, while the effect is
\* built and while it runs, never exceeds the run loop's frames plus the
\* thunk's and typecheckRecursive's, whatever the length of the chain.
C7_ChainStackBounded ==
  term \in Chains =>
    /\ maxNative <= Len(loopFrames) + 2
    /\ Len(native) <= Len(loopFrames)
    /\ pc = "done" => (out.ok /\ out.type = TNumber)

\* the longest chain has been checked, with one yield per node
C7_Witness ==
  /\ pc = "done"
  /\ term = deepTerm(MaxChain)
  /\ out.ok
  /\ out.type = TNumber
  /\ yields = 2 * MaxChain + 1
  /\ maxNative = Len(loopFrames) + 2

\* C11: a Call whose callee types to a function type and whose arguments
\* are all well typed, but whose number of arguments differs from the number
\* of parameters, fails with "number of arguments mismatch" at the span of
\* the Call, whether or not the arguments supplied match the leading
\* parameters.
C11_ArgCountFirst ==
  (pc = "done" /\ impl = "basic_suspend" /\ term.tag = TermTag.Call) =>
    LET f == typeIn(impl, func(term), env0)
        as == typesIn(impl, args(term), env0)
    IN (/\ f.ok
        /\ f.type.tag = TypeTag.Func
        /\ \A k \in 1..Len(as) : as[k].ok
        /\ Len(f.type.params) # Len(as)) =>
         /\ ~out.ok
         /\ out.error.message = Messages.ArgCountMismatch
         /\ out.loc = term.loc

\* ((x: number, y: number) => x)(true): one argument for two parameters, and
\* the argument does not match the first parameter
C11_Witness ==
  /\ pc = "done"
  /\ impl = "basic_suspend"
  /\ term = Annotate(sCall(sFunc(<<Param("x", TNumber), Param("y", TNumber)>>, sVar("x")), <<sTrue>>), 0)
  /\ ~out.ok
  /\ out.error.message = Messages.ArgCountMismatch
  /\ out.loc = term.loc

\* C12: an If whose condition types to Boolean and whose branches are well
\* typed yields the then-branch's type when the branches' types are
\* type-equal, and otherwise fails with "then and else have different types"
\* at the span of the If.
C12_IfBranches ==
  (pc = "done" /\ impl \in {"arith", "basic_suspend"} /\ term.tag = TermTag.If) =>
    LET c == typeIn(impl, cond(term), env0)
        t == typeIn(impl, thn(term), env0)
        e == typeIn(impl, els(term), env0)
    IN (c.ok /\ c.type.tag = TypeTag.Boolean /\ t.ok /\ e.ok) =>
         IF typeEq(t.type, e.type) THEN out.ok /\ out.type = t.type
         ELSE /\ ~out.ok
              /\ out.error.message = Messages.IfBranchesMismatch
              /\ out.loc = term.loc

\* true ? 1 : true under the Effect-based checker fails at the span of the If
C12_Witness ==
  /\ pc = "done"
  /\ impl = "basic_suspend"
  /\ term = Annotate(sIf(sTrue, sNumber(1), sTrue), 0)
  /\ ~out.ok
  /\ out.error = errorAt(Messages.IfBranchesMismatch, Location(Position(1, 0), Position(1, 15)))

\* the outcome o of a run is the outcome r: the same type, or the same
\* diagnostic at the same place
sameOutcome(o, r) ==
  /\ o.ok = r.ok
  /\ IF r.ok THEN o.type = r.type ELSE o.error = r.error

\* the outcome of checker i on a child term: the trampolined checkers apply
\* the rules of the Effect fold (TrampAgreesWithFold), whose outcome stands
\* for theirs on a child
childIn(i, t, env) ==
  IF i \in {"solve", "solve2"} THEN suspTypecheck(t, env) ELSE typeIn(i, t, env)

\* a finished trampolined run has the outcome of the Effect fold on the same
\* term and environment
TrampAgreesWithFold ==
  (pc = "done" /\ impl \in {"solve", "solve2"}) => sameOutcome(out, suspTypecheck(term, env0))

\* Seq(first, rest) as the rule table states it: first's failure, otherwise
\* the outcome of rest in the same environment
seqOutcome(i, t, env) ==
  LET f == childIn(i, body(t), env)
  IN IF ~f.ok THEN sameOutcome(out, f) ELSE sameOutcome(out, childIn(i, rest(t), env))

\* C13 as stated: every checker, the Reader fold included, gives a Seq
\* first's failure if first fails and otherwise the outcome of rest in the
\* same environment.
C13_SeqEverywhere ==
  (pc = "done" /\ impl \in {"basic_suspend", "reader", "solve", "solve2"} /\ term.tag = TermTag.Seq) =>
    seqOutcome(impl, term, env0)

\* C13: under the rule sets that handle Seq (the Effect fold and the
\* trampolined checkers) a Seq fails with first's diagnostic if first fails
\* and otherwise has exactly the outcome of rest in the same environment; the
\* Reader fold handles no Seq and fails with "not implemented yet" at the
\* span of the Seq.
C13_SeqWhereHandled ==
  (pc = "done" /\ term.tag = TermTag.Seq) =>
    /\ impl \in {"basic_suspend", "solve", "solve2"} => seqOutcome(impl, term, env0)
    /\ impl = "reader" =>
         ~out.ok /\ out.error = errorAt(ReaderMessages.NotImplemented, term.loc)

\* true + 1; 1 under a trampolined checker: the failure of first surfaces
C13_Witness ==
  /\ pc = "done"
  /\ impl = "solve"
  /\ term = Annotate(sSeq(sAdd(sTrue, sNumber(1)), sNumber(1)), 0)
  /\ ~out.ok
  /\ out.error.message = Messages.RuntimeAddType

\* C14: typeEq answers true exactly when the two types have the same shape:
\* the same tag, and for function types the same number of parameters,
\* parameter types of the same shape in order and return types of the same
\* shape. Parameter names never matter, and types of different tags are
\* never equal.
C14_TypeEqIsShape ==
  returned.done =>
    /\ call.op = "typeEq" =>
         /\ returned.value = (toPositional(call.a) = toPositional(call.b))
         /\ call.a.tag # call.b.tag => ~returned.value
    /\ call.op = "typeEqPositional" =>
         returned.value = (toPositional(call.a) = toPositional(call.b))

\* (x: number) => number against (y: number) => number
C14_Witness ==
  /\ call.op = "typeEq"
  /\ call.a = TFunc(<<Param("x", TNumber)>>, TNumber)
  /\ call.b = TFunc(<<Param("y", TNumber)>>, TNumber)
  /\ returned.done
  /\ returned.value

\* the names looked up in an extended environment: bound by the entries, by
\* the environment, by neither, and defined by Object.prototype
LookupNames == {"x", "y", "z", "toString"}

\* the positions of the entries that bind name
entriesOf(entries, name) == { k \in 1..Len(entries) : entries[k][1] = name }

\* what extend(env, entries) is to answer for name
lastBinding(env, entries, name) ==
  LET ks == entriesOf(entries, name)
  IN IF ks # {} THEN entries[CHOOSE k \in ks : \A j \in ks : j <= k][2] ELSE envGet(env, name)

\* C15: extending an environment never changes the environment it was
\* derived from: every object of the heap, the caller's environment and every
\* environment made since, keeps exactly its bindings through every step of
\* every later extension.
C15_EnvNeverChanged ==
  [][\A r \in DOMAIN heap : r \in DOMAIN heap' /\ heap'[r] = heap[r]]_vars

\* {x: number} was extended with x: boolean; the caller's object still binds
\* x to number and the new object binds it to boolean
C15_Witness ==
  /\ call.op = "extendEnv"
  /\ call.n = MaxCalls
  /\ returned.done
  /\ call.base = [n \in {"x"} |-> TNumber]
  /\ heap[1].props = call.base
  /\ returned.value # 1
  /\ heap[returned.value].props["x"] = TBoolean

\* C16: in the environment an extension returns, a name bound by the entries
\* has the type of the last entry with that name, and any other name is
\* looked up as in the environment extended; extendEnv and envExtend return
\* the same bindings for every environment and every sequence of entries,
\* duplicates included.
C16_ExtendLookup ==
  (returned.done /\ call.op \in {"extendEnv", "envExtend"}) =>
    LET env == heap[call.env].props
        new == heap[returned.value].props
    IN /\ \A name \in LookupNames : envGet(new, name) = lastBinding(env, call.entries, name)
       /\ new = (IF call.op = "extendEnv" THEN envExtend(env, call.entries) ELSE extendEnv(env, call.entries))

\* x bound twice by the entries, over an environment that binds x
C16_Witness ==
  /\ call.op = "envExtend"
  /\ call.n = 1
  /\ returned.done
  /\ call.base = [n \in {"x"} |-> TFn]
  /\ call.entries = << <<"x", TNumber>>, <<"x", TBoolean>> >>
  /\ heap[returned.value].props["x"] = TBoolean

\* the messages of the user-facing kinds of basic_suspend.ts; the message of
\* UnknownVariable is followed by the name
UserFacing(message) ==
  \/ message \in { Messages.IfCondNotBoolean, Messages.IfBranchesMismatch, Messages.RuntimeAddType,
                   Messages.FuncExpected, Messages.ArgCountMismatch, Messages.ArgTypeMismatch }
  \/ \E nm \in {"x", "y", "toString"} : message = unknownVariable(nm)

\* C18: on every term and environment the run of the complete checker
\* (basic_suspend.ts) ends, and it ends with a Type or with one diagnostic of
\* a user-facing kind, never with "not implemented yet" or an internal
\* error.
C18_TypeOrUserDiagnostic ==
  (pc = "done" /\ impl = "basic_suspend") =>
    IF out.ok THEN IsType(out.type) ELSE UserFacing(out.error.message)

\* the variable toString checked in the empty environment: the run ends with
\* a value that is no Type
C18_Input ==
  /\ pc = "done"
  /\ impl = "basic_suspend"
  /\ term = Annotate(sVar("toString"), 0)
  /\ env0 = emptyEnv
  /\ out.ok
  /\ out.type = NativeFn

\* C19: under the accumulating policy an If whose children each end in Ok
\* or Err is Err exactly when a child is Err or the If's own rule is broken;
\* the list is c's codes, t's codes, e's codes, then IfCondNotBoolean if c is
\* Ok and not Boolean, then IfBranchesMismatch if t and e are Ok with
\* different types; an Err never carries an empty list.
C19_IfAccumulatesInOrder ==
  (pc = "done" /\ impl \in {"example-fp", "part_000", "arith-alg"} /\ term.tag = TermTag.If) =>
    LET rc == foldTerm(impl, cond(term))
        rt == foldTerm(impl, thn(term))
        re == foldTerm(impl, els(term))
        all == errsOf(rc) \o errsOf(rt) \o errsOf(re) \o condNotBoolean(rc) \o branchesMismatch(rt, re)
    IN (~isThrown(rc) /\ ~isThrown(rt) /\ ~isThrown(re)) =>
         /\ isErr(out) <=> all # <<>>
         /\ isErr(out) => out.error = all /\ out.error # <<>>

\* 2 ? (true ? 2 : true) : 2 under part_000: the If's own code comes before
\* the code of its then-branch
C19_Input ==
  /\ pc = "done"
  /\ impl = "part_000"
  /\ term = Annotate(sIf(sNumber(2), sIf(sTrue, sNumber(2), sTrue), sNumber(2)), 0)
  /\ out = err(<<ErrorCode.IfCondNotBoolean, ErrorCode.IfBranchesMismatch>>)

\* an operand of an Add that checks to a type other than Number
nonNumberOperand(i, t) ==
  \E k \in {left(t), right(t)} : isOk(foldTerm(i, k)) /\ foldTerm(i, k).value.tag # TypeTag.Number

\* C20: under the accumulating policy no run on a term of the literal, Add
\* and If fragment throws, and an Add with an operand that checks to a type
\* other than Number ends in an Err that carries RuntimeAddType.
C20_NoUnreachable ==
  (pc = "done" /\ impl \in {"example-fp", "part_000", "arith-alg"}) =>
    /\ ~isThrown(out)
    /\ (term.tag = TermTag.Add /\ nonNumberOperand(impl, term)) =>
         isErr(out) /\ \E k \in 1..Len(out.error) : out.error[k] = ErrorCode.RuntimeAddType

\* true + 2 under part_000, the input of its own demonstration
C20_Input ==
  /\ pc = "done"
  /\ impl = "part_000"
  /\ term = Annotate(sAdd(sTrue, sNumber(2)), 0)
  /\ out = Thrown(ArithMessages.Unreachable)

\* C21: a number literal types to Number, and an Add whose operands each
\* type to Number in the environment types to Number, under every
\* synchronous checker.
C21_AddOfNumbers ==
  (pc = "done" /\ impl \in {"arith", "basic_suspend", "reader", "para"}) =>
    /\ term.tag = TermTag.Number => out.ok /\ out.type = TNumber
    /\ term.tag = TermTag.Add =>
         LET a == typeIn(impl, left(term), env0)
             b == typeIn(impl, right(term), env0)
         IN (a.ok /\ a.type = TNumber /\ b.ok /\ b.type = TNumber) =>
              out.ok /\ out.type = TNumber

\* 1 + 1 under arith.ts
C21_Witness ==
  /\ pc = "done"
  /\ impl = "arith"
  /\ term = Annotate(sAdd(sNumber(1), sNumber(1)), 0)
  /\ out.ok
  /\ out.type = TNumber

\* the spans of the nodes of t
RECURSIVE locsOf(_)
locsOf(t) == {t.loc} \cup UNION { locsOf(t.kids[k]) : k \in 1..Len(t.kids) }

RECURSIVE scopes(_, _)
scopes(t, env) ==
  {<<t.loc, env>>} \cup
    (CASE t.tag = TermTag.Func -> scopes(body(t), extendEnv(env, paramEntries(t.params)))
       [] t.tag = TermTag.Const ->
            LET i == suspTypecheck(init(t), env)
            IN scopes(init(t), env) \cup
                 (IF i.ok THEN scopes(rest(t), extendEnv(env, << <<t.name, i.type>> >>)) ELSE {})
       [] OTHER -> UNION { scopes(t.kids[k], env) : k \in 1..Len(t.kids) })

\* C23: every node the Effect fold checks is checked in its parent's
\* environment, except a Func body (the parameters added) and a Const rest
\* (the name bound to init's type added); a scope opened inside one child is
\* never seen by a sibling.
C23_ChildEnvironments ==
  (pc = "done" /\ impl = "basic_suspend") =>
    \A k \in 1..Len(out.trace) : <<out.trace[k].loc, out.trace[k].env>> \in scopes(term, env0)

\* ((x: number) => x) + x with x: boolean outside: the body sees x: number,
\* the right operand sees x: boolean
C23_Witness ==
  /\ pc = "done"
  /\ impl = "basic_suspend"
  /\ term = Annotate(sAdd(sFunc(<<Param("x", TNumber)>>, sVar("x")), sVar("x")), 0)
  /\ env0 = [n \in {"x"} |-> TBoolean]
  /\ Len(out.trace) = 4
  /\ out.trace[3].env = [n \in {"x"} |-> TNumber]
  /\ out.trace[4].env = env0

\* C24: the tagless-final checker and the fold-based checker end every run
\* on the same term and environment with the same type, or with the same
\* message at the same span.
C24_TaglessAgreesWithFold ==
  /\ (pc = "done" /\ impl = "tagless-final") => sameOutcome(out, suspTypecheck(term, env0))
  /\ (pc = "done" /\ impl = "basic_suspend") => sameOutcome(out, taglessTypecheck(term, env0))

\* ((x: number) => x) + x with x: number outside, under the tagless-final
\* checker: the Add fails at its own span, as under the fold
C24_Witness ==
  /\ pc = "done"
  /\ impl = "tagless-final"
  /\ term = Annotate(sAdd(sFunc(<<Param("x", TNumber)>>, sVar("x")), sVar("x")), 0)
  /\ env0 = [n \in {"x"} |-> TNumber]
  /\ ~out.ok
  /\ out.error.message = Messages.RuntimeAddType
  /\ out.loc = term.loc

\* C25: a finished run of a trampolined checker, with or without the outer
\* suspend, has the outcome of the synchronous fold on the same term and
\* environment: the same type, or the same message rendered at the same
\* span.
C25_TrampolinedAgreesWithFold ==
  (pc = "done" /\ impl \in {"solve", "solve2"}) =>
    LET r == suspTypecheck(term, env0)
    IN /\ out.ok = r.ok
       /\ out.ok => out.type = r.type
       /\ ~out.ok => out.error = r.error /\ out.loc = r.loc

\* ((x: number) => x)(true) run with yields: the mismatch at the argument
C25_Witness ==
  /\ pc = "done"
  /\ impl = "solve2"
  /\ yields > 0
  /\ term = Annotate(sCall(sFunc(<<Param("x", TNumber)>>, sVar("x")), <<sTrue>>), 0)
  /\ ~out.ok
  /\ out.error.message = Messages.ArgTypeMismatch
  /\ out.loc = args(term)[1].loc

\* the indices of the arguments whose types differ from their parameters'
mismatchedArgs(fty, as) == { k \in 1..Len(as) : ~typeEq(fty.params[k].type, as[k].type) }

\* C28: a Call whose callee is a function, with as many well-typed arguments
\* as parameters, of which some differ in type from their parameters, fails
\* with one "parameter type mismatch" at the span of the mismatched argument
\* of lowest index, under the collecting variant and under the variants that
\* return from the loop alike.
C28_FirstMismatchedArgument ==
  (pc = "done" /\ impl \in {"basic_suspend", "solve", "solve2"} /\ term.tag = TermTag.Call) =>
    LET f == childIn(impl, func(term), env0)
        as == [k \in 1..Len(args(term)) |-> childIn(impl, args(term)[k], env0)]
    IN (/\ f.ok
        /\ f.type.tag = TypeTag.Func
        /\ \A k \in 1..Len(as) : as[k].ok
        /\ Len(f.type.params) = Len(as)
        /\ mismatchedArgs(f.type, as) # {}) =>
         LET bad == mismatchedArgs(f.type, as)
             low == CHOOSE k \in bad : \A j \in bad : k <= j
         IN /\ ~out.ok
            /\ out.error.message = Messages.ArgTypeMismatch
            /\ out.loc = args(term)[low].loc

\* ((x: number, y: number) => x)(true, true) under the collecting variant:
\* both arguments differ, the first is blamed
C28_Witness ==
  /\ pc = "done"
  /\ impl = "solve"
  /\ term = Annotate(sCall(sFunc(<<Param("x", TNumber), Param("y", TNumber)>>, sVar("x")), <<sTrue, sTrue>>), 0)
  /\ ~out.ok
  /\ out.error.message = Messages.ArgTypeMismatch
  /\ out.loc = args(term)[1].loc
  /\ out.loc # args(term)[2].loc

\* the number of nodes of a term
RECURSIVE nodes(_)
nodes(t) == IF t.kids = <<>> THEN 1 ELSE 1 + nodes(Head(t.kids)) + (nodes([t EXCEPT !.kids = Tail(t.kids)]) - 1)

RECURSIVE astDepth(_)
astDepth(t) ==
  IF t.kids = <<>> THEN 1
  ELSE LET ds == { astDepth(t.kids[k]) : k \in 1..Len(t.kids) }
       IN 1 + (CHOOSE d \in ds : \A e \in ds : e <= d)

\* C27: the eager variant has called typecheckRecursive once per node of the
\* term, nested as deep as the term is deep, before its driver runs; on a
\* right-nested chain of Adds deeper than the native stack has room for it
\* ends in a stack overflow without the driver having run.  Under the
\* variants that suspend, the native stack while an effect is built or run
\* never grows with the term, and no run overflows.
C27_EagerBuildsOnTheStack ==
  /\ (impl = "basic_problem" /\ pc = "build") =>
       /\ Len(kont) <= astDepth(term)
       /\ ctl.calls <= nodes(term)
       /\ Len(native) >= 1 + Len(kont)
  /\ (impl = "basic_problem" /\ pc = "built") =>
       /\ ctl.calls = nodes(term)
       /\ ctl.nesting = astDepth(term)
       /\ maxNative >= 1 + astDepth(term)
       /\ out = NoOut
  /\ (impl = "basic_problem" /\ term \in Chains /\ astDepth(term) > StackLimit) =>
       /\ pc # "built"
       /\ pc = "done" => (~out.ok /\ out.error.name = "RangeError" /\ ctl.calls < nodes(term))
  /\ (impl = "basic_problem" /\ pc = "done" /\ 1 + astDepth(term) <= StackLimit /\ term \in Chains) =>
       (out.ok /\ ctl.calls = nodes(term))
  /\ impl \in {"solve", "solve2"} =>
       /\ maxNative <= Len(loopFrames) + 3
       /\ (pc = "run" /\ yields = 0) => maxNative <= Len(loopFrames) + 1
       /\ (pc = "done" /\ term \in Chains) => out.ok

\* the chain of MaxChain Adds under the eager variant: the stack overflows
\* while the effect is built, some nodes never visited
C27_Witness ==
  /\ impl = "basic_problem"
  /\ pc = "done"
  /\ term = deepTerm(MaxChain)
  /\ astDepth(term) > StackLimit
  /\ ~out.ok
  /\ out.error.name = "RangeError"
  /\ ctl.calls < nodes(term)
  /\ maxNative = StackLimit

\* the nodes of a type
RECURSIVE typeNodes(_)
typeNodes(ty) ==
  IF ty.tag # TypeTag.Func THEN 1
  ELSE LET ps == [k \in 1..Len(ty.params) |-> typeNodes(ty.params[k].type)]
           sum[k \in 0..Len(ps)] == IF k = 0 THEN 0 ELSE sum[k - 1] + ps[k]
       IN 1 + sum[Len(ps)] + typeNodes(ty.retType)

\* the calls of typeEq that typeEq(a, b) makes, itself included: the loop
\* over the parameters returns at the first pair that differs
RECURSIVE typeEqCalls(_, _)
typeEqCalls(a, b) ==
  IF a.tag # b.tag \/ a.tag # TypeTag.Func \/ Len(a.params) # Len(b.params) THEN 1
  ELSE LET differ == { i \in 1..Len(a.params) : ~typeEq(a.params[i].type, b.params[i].type) }
           last == IF differ = {} THEN Len(a.params) ELSE CHOOSE i \in differ : \A j \in differ : i <= j
           made[k \in 0..last] == IF k = 0 THEN 0 ELSE made[k - 1] + typeEqCalls(a.params[k].type, b.params[k].type)
       IN 1 + made[last] + (IF differ = {} THEN typeEqCalls(a.retType, b.retType) ELSE 0)

\* C29: typeEq, as called on two types of the pool, answers true on a type
\* and itself, answers the same with its arguments exchanged, and, when it
\* answers true and the second type equals a third, equals the first with
\* the third; the call makes no more calls of typeEq than the smaller of the
\* two types has nodes.
C29_TypeEqEquivalence ==
  (call.op = "typeEq" /\ returned.done) =>
    /\ call.a = call.b => returned.value
    /\ returned.value = typeEq(call.b, call.a)
    /\ \A c \in TypePool : (returned.value /\ typeEq(call.b, c)) => typeEq(call.a, c)
    /\ typeEqCalls(call.a, call.b) <= typeNodes(call.a)
    /\ typeEqCalls(call.a, call.b) <= typeNodes(call.b)

\* (x: boolean, y: number) => number against (y: boolean) => number: the
\* arities differ, in whichever order the two are compared
C29_Witness ==
  /\ call.op = "typeEq"
  /\ call.a = TFunc(<<Param("x", TBoolean), Param("y", TNumber)>>, TNumber)
  /\ call.b = TFunc(<<Param("y", TBoolean)>>, TNumber)
  /\ returned.done
  /\ ~returned.value
  /\ ~typeEq(call.b, call.a)

\* C30: on a term of literals, Adds and Ifs an accumulating checker returns
\* Ok exactly when the fail-fast checker of arith.ts returns a type, the type
\* is then the same, and whenever the fail-fast checker raises a diagnostic
\* the accumulating checker returns an Err or throws.
C30_PoliciesAgreeOnSuccess ==
  (pc = "done" /\ impl \in {"example-fp", "part_000", "arith-alg"}) =>
    LET ff == arithTypecheck(term)
    IN /\ isOk(out) <=> ff.ok
       /\ isOk(out) => out.value = ff.type
       /\ ~ff.ok => (isErr(out) \/ isThrown(out))

\* (1 ? 2 : true) under the accumulating checker of example-fp.ts: two
\* errors where the fail-fast checker raises the first
C30_Witness ==
  /\ pc = "done"
  /\ impl = "example-fp"
  /\ term = Annotate(sIf(sNumber(2), sNumber(2), sTrue), 0)
  /\ isErr(out)
  /\ Len(out.error) = 2
  /\ ~arithTypecheck(term).ok
  /\ arithTypecheck(term).error.message = ArithMessages.RuntimeIfType

====
